---- MODULE Spec2Model ----
(***************************************************************************)
(* Model of the wasm_interp expression executor: the value/frame/label     *)
(* Stack (core/stack.rs), the linear Memory (core/memory.rs), the Global   *)
(* cell (core/global.rs) and the interpreter loop of                       *)
(* core/executor/execute_core.rs together with WasmExprCallable::call      *)
(* (core/callable.rs).                                                     *)
(*                                                                         *)
(* The interpreter recurses on the Rust call stack.  The variable ctl is   *)
(* that call stack: one record per live activation of                      *)
(*   WasmExprCallable::call        (k = "call"),                           *)
(*   execute_block_expression      (k = "block"),                          *)
(*   execute_expression_internal   (k = "expr").                           *)
(* An instruction source is either a concrete instruction sequence or an   *)
(* unconstrained source: every time the iterator of an unconstrained       *)
(* source is advanced it yields any instruction of the alphabet, or the    *)
(* end of the expression.                                                  *)
(***************************************************************************)
EXTENDS Integers, Sequences, FiniteSets, TLC

\* ---------------------------------------------------------------- bounds
\* one invocation of up to MaxSteps unconstrained instructions (Spec), or up to
\* MaxInvocations invocations sharing MaxStepsReinvoke of them (SpecReinvoke)
MaxSteps == 4
MaxStepsReinvoke == 3
MaxInvocations == 2
\* one invocation of up to MaxStepsMemory instructions of the memory alphabet
MaxStepsMemory == 3
\* one invocation of up to MaxStepsDivide instructions of the divide alphabet
MaxStepsDivide == 3
\* one invocation of up to MaxStepsShift instructions of the shift alphabet
MaxStepsShift == 3
\* the decoder reads up to MaxSections sections of up to MaxPayload bytes each
MaxSections == 3
MaxPayload == 5
\* the longest payload where only the order of the sections matters
MaxPayloadCustom == 4
\* the longest byte string handed to the LEB128 decoders
MaxLebLen == 6
\* the imports, definitions, exports and segments of a module, all together
MaxItems == 4
MaxSets == 3
MaxStackOps == 5
MaxDepth == 3
MaxCount == 3
MaxGrows == 3
MaxReads == 3
MaxScope == 3
MaxDeclaredPages == 3

\* ------------------------------------------------------ program constants
WASM_PAGE_SIZE_IN_BYTES == 65536
TestMinPages == 1
TestMaxPages == 3

\* ------------------------------------------------------------ stack entry
\* StackEntry::I32Entry(u32) / I64Entry(u64).  v is the two's-complement
\* integer that the stored bits encode, so that StackEntry::from(-1i32),
\* the bits 0xFFFFFFFF, is v = -1 and an unsigned operand of 2^31 or more
\* is a negative v.
NEG1 == -1
\* i32::MIN
INT_MIN == -2147483647 - 1
I32Entry(v) == [ty |-> "I32", v |-> v]
\* StackEntry::is_same_type: the two entries are of the same variant
is_same_type(a, b) == a.ty = b.ty
I64Entry(v) == [ty |-> "I64", v |-> v]

\* --------------------------------------------------- instruction sources
NoSrc == [kind |-> "none", code |-> <<>>]
AnySrc == [kind |-> "any", code |-> <<>>]
CodeSrc(c) == [kind |-> "code", code |-> c]

Ins(op, a) == [op |-> op, a |-> a, bt |-> "None", body |-> NoSrc, has_else |-> FALSE, els |-> NoSrc]
BlockIns(op, bt, body, has_else, els) ==
    [op |-> op, a |-> 0, bt |-> bt, body |-> body, has_else |-> has_else, els |-> els]
\* a load or store: the two LEB immediates of the instruction, in the order of
\* the encoding (the alignment hint, then the static offset)
MemIns(op, align, offset) ==
    [op |-> op, a |-> offset, align |-> align, bt |-> "None", body |-> NoSrc,
     has_else |-> FALSE, els |-> NoSrc]
\* a BrTable with the bytes of the instruction: opcode, table length, targets
BrTableIns(bytes) ==
    [op |-> "BrTable", a |-> 0, bt |-> "None", body |-> NoSrc, has_else |-> FALSE,
     els |-> NoSrc, bytes |-> bytes]
EndOfExpr == Ins("EndOfExpr", 0)

FlatInstr ==
    {Ins("I32Const", v) : v \in {0, 1}} \cup {Ins("I64Const", 0)}
    \cup {Ins("Drop", 0), Ins("Unreachable", 0), Ins("Return", 0), Ins("CallIndirect", 0)}
    \cup {Ins("LocalGet", 0), Ins("LocalSet", 0)}
    \cup {Ins("GlobalSet", 0), MemIns("I32Store8", 0, 0)}
    \cup {Ins("MemorySize", 0), Ins("MemoryGrow", 0)}
    \cup {Ins("Br", k) : k \in 0..2}
    \cup {Ins("BrIf", 0)}
    \cup {Ins("Call", f) : f \in 0..2}

BlockInstr ==
    {BlockIns(op, bt, AnySrc, FALSE, NoSrc) : op \in {"Block", "Loop", "If"}, bt \in {"None", "I32"}}
    \cup {BlockIns("If", bt, AnySrc, TRUE, AnySrc) : bt \in {"None", "I32"}}

\* the control instructions every alphabet has
CoreControl ==
    {BlockIns(op, "None", AnySrc, FALSE, NoSrc) : op \in {"Block", "Loop", "If"}}
    \cup {Ins("Br", 0), Ins("BrIf", 0), Ins("Return", 0), Ins("Call", 1)}

\* offsets around the end of the first page
NearPageEnd == {0, WASM_PAGE_SIZE_IN_BYTES - 3}

MemOps == {"I32Load", "I32Load8U", "I32Store", "I32Store8"}

MemoryInstr ==
    {Ins("I32Const", v) : v \in {0, 1}} \cup {Ins("I64Const", 0), Ins("LocalGet", 0)}
    \cup {Ins("MemoryGrow", 0)}
    \cup {MemIns(op, align, off) : op \in MemOps, align \in {0, 2}, off \in NearPageEnd}

DivOps32 == {"I32DivS", "I32DivU", "I32RemS", "I32RemU"}
DivOps64 == {"I64DivS", "I64DivU", "I64RemS", "I64RemU"}

DivideInstr ==
    {Ins("I32Const", v) : v \in {0, 1, NEG1, INT_MIN}} \cup {Ins("I64Const", v) : v \in {0, 1}}
    \cup {Ins(op, 0) : op \in DivOps32 \cup DivOps64}

ShiftOps32 == {"I32Shl", "I32ShrS", "I32ShrU", "I32Rotl", "I32Rotr"}
ShiftOps64 == {"I64Shl", "I64ShrS", "I64ShrU", "I64Rotl", "I64Rotr"}

\* shift amounts below, at and above the bit width; NEG1 is 2^N - 1
ShiftInstr ==
    {Ins("I32Const", v) : v \in {1, 33, NEG1}} \cup {Ins("I64Const", v) : v \in {32, 64}}
    \cup {Ins(op, 0) : op \in ShiftOps32 \cup ShiftOps64}

\* the instructions an unconstrained source may yield, by alphabet
Alphabet(name) ==
    CASE name = "control" -> FlatInstr \cup BlockInstr
      [] name = "memory" -> MemoryInstr \cup CoreControl
      [] name = "divide" -> DivideInstr \cup CoreControl
      [] name = "shift" -> ShiftInstr \cup CoreControl
      [] name = "test" -> {}

\* InstructionSource::iter().next() after pc instructions have been yielded;
\* avail holds the instructions an unconstrained source may yield next
IterNext(src, pc, avail) ==
    IF src.kind = "code"
    THEN IF pc < Len(src.code) THEN {src.code[pc + 1]} ELSE {EndOfExpr}
    ELSE {EndOfExpr} \cup avail

\* ------------------------------------------------ the instantiated module
\* function index space: callables with func_type, flattened locals and expr
Funcs ==
    << [params |-> <<"I32">>, locals |-> <<"I32">>, results |-> <<"I32">>, expr |-> AnySrc],
       [params |-> <<>>, locals |-> <<>>, results |-> <<"I32">>,
        expr |-> CodeSrc(<<Ins("MemorySize", 0)>>)] >>

VARIABLES
    entries,      \* Stack.entries
    frames,       \* Stack.frames
    ctl,          \* the interpreter's live activations, outermost first
    mode,         \* "idle", "exec", "ret", "restart", "done", "trap", "panic"
    ret,          \* the Result<BranchControl> travelling to the top activation
    pages,        \* Memory.pages.len()
    mem,          \* the non-zero bytes of the memory, as <<address, byte>> pairs
    glob,         \* the globals of the instance
    invocations,  \* invocations started on this instance
    trapped,      \* an earlier invocation on this instance ended in a trap
    cur,          \* the function of the current invocation
    committed,    \* the store as the last completed instruction left it
    steps,        \* instructions yielded by unconstrained sources so far
    budget,       \* the bounds and the build of this exploration:
                  \* [steps, invocations, alphabet, overflow_checks]
    last,         \* the last event, with the values it observed
    dec,          \* the decoder: RawModule::read and its ModuleBuilder
    inst          \* the instantiation: resolve_raw_module and the modules it builds

vars == <<entries, frames, ctl, mode, ret, pages, mem, glob, invocations, trapped, cur,
          committed, steps, budget, last, dec, inst>>

store == <<pages, mem, glob>>

\* --------------------------------------------------------- Stack (stack.rs)
StackLabel(sp, arity) == [sp |-> sp, arity |-> arity]

StackFrame(sp, parameter_count, local_count, return_types) ==
    [sp |-> sp, parameter_count |-> parameter_count, local_count |-> local_count,
     label_stack |-> <<>>, return_types |-> return_types]

height(es) == Len(es)

frame_base(fs) == IF fs = <<>> THEN 0 ELSE fs[Len(fs)].sp

local_limit_of(f) == f.sp + f.parameter_count + f.local_count

local_limit(fs) == IF fs = <<>> THEN 0 ELSE local_limit_of(fs[Len(fs)])

working_base_of(f) ==
    IF f.label_stack = <<>> THEN local_limit_of(f)
    ELSE f.label_stack[Len(f.label_stack)].sp

working_base(fs) == IF fs = <<>> THEN 0 ELSE working_base_of(fs[Len(fs)])

working_count(fs, es) == height(es) - working_base(fs)

working_top(es, n) == SubSeq(es, Len(es) - n + 1, Len(es))

\* the assert!(self.working_count() >= n) of Stack::working_top
working_top_assert(fs, es, n) == working_count(fs, es) >= n

\* a get_stack_top without the working-count check
get_stack_top_unchecked(fs, es, n) == "ok"

\* get_stack_top: Err when fewer than n working values are present, else
\* Ok(stack.working_top(n))
get_stack_top(fs, es, n) ==
    IF working_count(fs, es) < n THEN "err"
    ELSE IF working_top_assert(fs, es, n) THEN "ok"
    ELSE "panic"

\* Stack::pop / Stack::pop_n: the assert on the working count guards the truncate
pop_n(fs, es, n) ==
    IF working_count(fs, es) >= n
    THEN [panic |-> FALSE, entries |-> SubSeq(es, 1, Len(es) - n)]
    ELSE [panic |-> TRUE, entries |-> es]

\* a drop_entries that truncates without moving the results down
drop_entries_truncate(fs, es, to_drop, arity) ==
    IF working_count(fs, es) >= to_drop + arity
    THEN [panic |-> FALSE, entries |-> SubSeq(es, 1, Len(es) - to_drop)]
    ELSE [panic |-> TRUE, entries |-> es]

\* Stack::drop_entries: keep the top arity values, drop to_drop values below them
drop_entries(fs, es, to_drop, arity) ==
    IF working_count(fs, es) >= to_drop + arity
    THEN [panic |-> FALSE,
          entries |-> SubSeq(es, 1, Len(es) - arity - to_drop) \o working_top(es, arity)]
    ELSE [panic |-> TRUE, entries |-> es]

\* a push_label that records the bottom of the stack instead of its height
push_label_bottom(fs, es, arity) ==
    [fs EXCEPT ![Len(fs)].label_stack = Append(@, StackLabel(0, arity))]

\* Stack::push_label -> StackFrame::push_label with sp = height
push_label(fs, es, arity) ==
    [fs EXCEPT ![Len(fs)].label_stack = Append(@, StackLabel(height(es), arity))]

\* Stack::pop_n_labels -> StackFrame::pop_n_labels, then drop_entries.
\* (height - sp) - arity is an unsigned subtraction: it aborts when the
\* values above the label are fewer than the label's arity.
pop_n_labels(fs, es, count) ==
    LET f == fs[Len(fs)]
        ls == f.label_stack
    IN IF Len(ls) < count \/ count = 0
       THEN [panic |-> TRUE, frames |-> fs, entries |-> es]
       ELSE LET lab == ls[Len(ls) - count + 1]
                fs2 == [fs EXCEPT ![Len(fs)].label_stack = SubSeq(ls, 1, Len(ls) - count)]
            IN IF height(es) - lab.sp < lab.arity
               THEN [panic |-> TRUE, frames |-> fs2, entries |-> es]
               ELSE LET r == drop_entries(fs2, es, (height(es) - lab.sp) - lab.arity, lab.arity)
                    IN [panic |-> r.panic, frames |-> fs2, entries |-> r.entries]

TypesMatch(types, vals) ==
    \A i \in 1..Len(types) : vals[i].ty = types[i]

ZeroEntry(ty) == [ty |-> ty, v |-> 0]

\* a push_typed_frame whose frame starts above the arguments
push_typed_frame_above(fs, es, func) ==
    LET arg_count == Len(func.params)
    IN IF arg_count > working_count(fs, es)
       THEN [err |-> "Not enough arguments on working stack", frames |-> fs, entries |-> es]
       ELSE IF ~TypesMatch(func.params, working_top(es, arg_count))
       THEN [err |-> "Argument type does not match", frames |-> fs, entries |-> es]
       ELSE [err |-> "",
             frames |-> Append(fs, StackFrame(height(es), 0, Len(func.locals), func.results)),
             entries |-> es \o [i \in 1..Len(func.locals) |-> ZeroEntry(func.locals[i])]]

\* a push_typed_frame that pushes the locals before it compares the types
push_typed_frame_locals_first(fs, es, func) ==
    LET arg_count == Len(func.params)
        es2 == es \o [i \in 1..Len(func.locals) |-> ZeroEntry(func.locals[i])]
    IN IF arg_count > working_count(fs, es)
       THEN [err |-> "Not enough arguments on working stack", frames |-> fs, entries |-> es]
       ELSE IF ~TypesMatch(func.params, working_top(es, arg_count))
       THEN [err |-> "Argument type does not match", frames |-> fs, entries |-> es2]
       ELSE [err |-> "",
             frames |-> Append(fs, StackFrame(height(es) - arg_count, arg_count,
                                              Len(func.locals), func.results)),
             entries |-> es2]

\* Stack::push_typed_frame
push_typed_frame(fs, es, func) ==
    LET arg_count == Len(func.params)
    IN IF arg_count > working_count(fs, es)
       THEN [err |-> "Not enough arguments on working stack", frames |-> fs, entries |-> es]
       ELSE IF ~TypesMatch(func.params, working_top(es, arg_count))
       THEN [err |-> "Argument type does not match", frames |-> fs, entries |-> es]
       ELSE [err |-> "",
             frames |-> Append(fs, StackFrame(height(es) - arg_count, arg_count,
                                              Len(func.locals), func.results)),
             entries |-> es \o [i \in 1..Len(func.locals) |-> ZeroEntry(func.locals[i])]]

\* a pop_typed_frame that removes the frame but leaves its values
pop_typed_frame_keep(fs, es) ==
    LET f == fs[Len(fs)]
        arity == Len(f.return_types)
    IN IF working_count(fs, es) < arity
       THEN [err |-> "Insufficient return values", frames |-> fs, entries |-> es]
       ELSE IF ~TypesMatch(f.return_types, working_top(es, arity))
       THEN [err |-> "Argument type does not match", frames |-> fs, entries |-> es]
       ELSE [err |-> "", frames |-> SubSeq(fs, 1, Len(fs) - 1), entries |-> es]

\* Stack::pop_typed_frame
pop_typed_frame(fs, es) ==
    LET f == fs[Len(fs)]
        arity == Len(f.return_types)
    IN IF working_count(fs, es) < arity
       THEN [err |-> "Insufficient return values", frames |-> fs, entries |-> es]
       ELSE IF ~TypesMatch(f.return_types, working_top(es, arity))
       THEN [err |-> "Argument type does not match", frames |-> fs, entries |-> es]
       ELSE [err |-> "",
             frames |-> SubSeq(fs, 1, Len(fs) - 1),
             entries |-> SubSeq(es, 1, f.sp) \o working_top(es, arity)]

\* ------------------------------------------------------ Memory (memory.rs)
\* a grow_by that grows to the maximum when the request does not fit
grow_by_partial(current_size, n) ==
    IF n >= 0 /\ current_size + n <= TestMaxPages
    THEN [ok |-> TRUE, pages |-> current_size + n]
    ELSE [ok |-> FALSE, pages |-> TestMaxPages]

\* Memory::grow_by on a memory with a declared maximum; n is the u32 operand
\* (n < 0 stands for 2^31 pages or more, beyond any declared maximum here)
grow_by(current_size, n) ==
    IF n >= 0 /\ current_size + n <= TestMaxPages
    THEN [ok |-> TRUE, pages |-> current_size + n]
    ELSE [ok |-> FALSE, pages |-> current_size]

\* a bounds check that looks at the first byte of the range only
check_bounds_first_byte(current_size, offset, length) ==
    offset >= 0 /\ offset < current_size * WASM_PAGE_SIZE_IN_BYTES

\* Memory::check_bounds (offset < 0 stands for an address of 2^31 or more)
check_bounds(current_size, offset, length) ==
    offset >= 0 /\ offset + length <= current_size * WASM_PAGE_SIZE_IN_BYTES

\* the byte of the memory at an address
ByteAt(m, address) ==
    IF \E c \in m : c[1] = address THEN (CHOOSE c \in m : c[1] = address)[2] ELSE 0

\* Memory::set_data: nothing is written unless the whole range is in bounds
set_data(current_size, m, offset, data) ==
    IF check_bounds(current_size, offset, Len(data))
    THEN [ok |-> TRUE,
          mem |-> {c \in m : c[1] < offset \/ c[1] >= offset + Len(data)}
                  \cup {<<offset + i - 1, data[i]>> : i \in {j \in 1..Len(data) : data[j] # 0}}]
    ELSE [ok |-> FALSE, mem |-> m]

\* Memory::get_data
get_data(current_size, m, offset, length) ==
    IF check_bounds(current_size, offset, length)
    THEN [ok |-> TRUE, data |-> [i \in 1..length |-> ByteAt(m, offset + i - 1)]]
    ELSE [ok |-> FALSE, data |-> <<>>]

\* LEByteConvert::to_bytes of the low n bytes of v
to_bytes(v, n) == [i \in 1..n |-> (v \div (256 ^ (i - 1))) % 256]

\* LEByteConvert::from_bytes for u8 and u32, as the value of the stack entry
from_bytes(bytes) ==
    IF Len(bytes) = 1 THEN bytes[1]
    ELSE bytes[1] + 256 * bytes[2] + 65536 * bytes[3]
         + 16777216 * (IF bytes[4] >= 128 THEN bytes[4] - 256 ELSE bytes[4])

\* ------------------------------------------------------ Global (global.rs)
Global(mutable, ty, value) == [mutable |-> mutable, ty |-> ty, value |-> value]

\* a set_value that stores whatever a mutable global is given
set_value_untyped(g, value) ==
    IF ~g.mutable THEN [ok |-> FALSE, g |-> g]
    ELSE [ok |-> TRUE, g |-> [g EXCEPT !.value = value]]

\* Global::set_value
set_value(g, value) ==
    IF ~g.mutable THEN [ok |-> FALSE, g |-> g]
    ELSE IF value.ty # g.ty THEN [ok |-> FALSE, g |-> g]
    ELSE [ok |-> TRUE, g |-> [g EXCEPT !.value = value]]

\* ------------------------------------------- BranchControl (execute_core.rs)
Nil == [t |-> "nil"]
Err(msg) == [t |-> "err", msg |-> msg]
no_branch == [t |-> "bc", is_branch |-> FALSE, label_idx |-> 0, label_cnt |-> 0]
\* a branch that does not count the labels it crosses
branch_target_uncounted(label_idx) ==
    [t |-> "bc", is_branch |-> TRUE, label_idx |-> label_idx, label_cnt |-> 0]

branch_target(label_idx) ==
    [t |-> "bc", is_branch |-> TRUE, label_idx |-> label_idx, label_cnt |-> label_idx]

IsErr(r) == r.t = "err"
IsBranch(r) == r.t = "bc" /\ r.is_branch

\* ------------------------------------------------------------ activations
CallAct(f, base, below, labs, depth, caller) ==
    [k |-> "call", f |-> f, base |-> base, below |-> below, labs |-> labs, depth |-> depth,
     caller |-> caller]
BlockAct(op, bt, is_loop, src, nlab0, h0) ==
    [k |-> "block", op |-> op, bt |-> bt, is_loop |-> is_loop, src |-> src,
     nlab0 |-> nlab0, h0 |-> h0, runs |-> 1]
ExprAct(src) == [k |-> "expr", src |-> src, pc |-> 0]

Top == ctl[Len(ctl)]
Pop(c) == SubSeq(c, 1, Len(c) - 1)
CurLabels == IF frames = <<>> THEN <<>> ELSE frames[Len(frames)].label_stack

\* the bits of the N-bit two's complement value whose signed view is v
\* (v of the 32-bit range), bit 0 the least significant
Bits(v, N) ==
    [i \in 0..(N - 1) |-> IF i >= 31 THEN (IF v < 0 THEN 1 ELSE 0) ELSE (v \div (2 ^ i)) % 2]

RECURSIVE Weigh(_, _, _)
\* the sum of 2^j over the bits j <= i of f that are equal to one
Weigh(f, i, one) ==
    IF i < 0 THEN 0 ELSE (IF f[i] = one THEN 2 ^ i ELSE 0) + Weigh(f, i - 1, one)

\* the signed view of the N-bit value with bits f
Value(f, N) == IF f[N - 1] = 1 THEN (0 - 1) - Weigh(f, N - 2, 0) ELSE Weigh(f, N - 2, 1)

\* <<, >> (logical and arithmetic), rotate_left and rotate_right by k < N
ShiftBits(kind, f, k, N) ==
    CASE kind = "Shl" -> [i \in 0..(N - 1) |-> IF i >= k THEN f[i - k] ELSE 0]
      [] kind = "ShrU" -> [i \in 0..(N - 1) |-> IF i + k < N THEN f[i + k] ELSE 0]
      [] kind = "ShrS" -> [i \in 0..(N - 1) |-> IF i + k < N THEN f[i + k] ELSE f[N - 1]]
      [] kind = "Rotl" -> [i \in 0..(N - 1) |-> f[(i - k) % N]]
      [] kind = "Rotr" -> [i \in 0..(N - 1) |-> f[(i + k) % N]]

\* the bitwise | of two values of the same width
OrBits(f, g) == [i \in DOMAIN f |-> IF f[i] = 1 \/ g[i] = 1 THEN 1 ELSE 0]

\* ------------------------------------------- decoder (reader/, core/module.rs)
CustomSection == 0
TypeSection == 1
FunctionSection == 3
StartSection == 8
CodeSection == 10
DataSection == 11
\* None of Option<SectionType>
NoSection == 12

\* the opcodes and the block type among the bytes of the alphabet
OpLoop == 3
OpEnd == 11
BlockTypeNone == 0

\* the bytes a payload is made of; each is below 0x80, a one-byte LEB128
PayloadBytes == {0, 1, OpLoop, OpEnd}

Payloads == UNION {[1..n -> PayloadBytes] : n \in 0..budget.payload}

SectionIds == {CustomSection, FunctionSection, StartSection, CodeSection, DataSection}

Min(a, b) == IF a < b THEN a ELSE b

\* a reader over the bytes of one section payload, and ScopedReader::new on
\* top of a reader: reads go through src, so both limits apply
NewReader(bytes) == [bytes |-> bytes, pos |-> 0, lim |-> Len(bytes), outer |-> Len(bytes)]
ScopedReader(src, size) ==
    [bytes |-> src.bytes, pos |-> src.pos, lim |-> src.pos + size,
     outer |-> Min(src.lim, src.outer)]

is_at_end(r) == r.pos = r.lim

ROk(r, v) == [res |-> "ok", r |-> r, v |-> v]
RFail(res, r) == [res |-> res, r |-> r, v |-> 0]

\* read_exact of one byte: UnexpectedEof when the scope has no byte left
read_u8(r) ==
    IF r.pos < r.lim /\ r.pos < r.outer
    THEN ROk([r EXCEPT !.pos = @ + 1], r.bytes[r.pos + 1])
    ELSE RFail("err", r)

\* the value of a `let`: S is {e(x) : x \in {v}}, with v computed once
Only(S) == CHOOSE x \in S : TRUE

\* result |= u32::from(byte & 0x7f) << shift, on the signed view acc of
\* result. Up to a shift of 21 the chunk lands on clear bits below bit 28, where
\* | is +. A shift of 32 or more is an overflow: the build that checks it
\* panics, the build that does not shifts by shift % 32
leb_u32_chunk(acc, byte, shift) ==
    IF shift <= 21 THEN [res |-> "ok", v |-> acc + (byte % 128) * (2 ^ shift)]
    ELSE IF shift >= 32 /\ budget.overflow_checks THEN [res |-> "panic", v |-> acc]
    ELSE [res |-> "ok",
          v |-> Value(OrBits(Bits(acc, 32),
                             ShiftBits("Shl", Bits(byte % 128, 32), shift % 32, 32)), 32)]

RECURSIVE leb_u32_loop(_, _, _)
\* the loop of read_leb_u32, with result and shift
leb_u32_loop(r, acc, shift) ==
    Only({IF b.res # "ok" THEN b
          ELSE Only({IF a.res # "ok" THEN RFail(a.res, b.r)
                     ELSE IF b.v < 128 THEN ROk(b.r, a.v)
                     ELSE leb_u32_loop(b.r, a.v, shift + 7)
                     : a \in {leb_u32_chunk(acc, b.v, shift)}})
          : b \in {read_u8(r)}})

\* ReaderUtil::read_leb_u32; the value is the signed view of the u32
read_leb_u32(r) == leb_u32_loop(r, 0, 0)

\* get_leb_u32_at's limits on the chunks of a 32 bit number
HIGHEST_CHUNK == 4
HIGHEST_CHUNK_MASK == 15

\* InstructionAccumulator::ensure_bytes of the slice accumulator over bytes
ensure_bytes(bytes, n) == n <= Len(bytes)

RECURSIVE ensure_leb_loop(_, _, _)
\* the loop of ensure_leb_at, with number_length
ensure_leb_loop(bytes, offset, number_length) ==
    IF ~ensure_bytes(bytes, offset + number_length) THEN [res |-> "err", v |-> 0]
    ELSE IF bytes[offset + number_length] < 128 THEN [res |-> "ok", v |-> number_length]
    ELSE ensure_leb_loop(bytes, offset, number_length + 1)

\* InstructionAccumulator::ensure_leb_at: the length of the number at offset
ensure_leb_at(bytes, offset) == ensure_leb_loop(bytes, offset, 1)

RECURSIVE get_leb_u32_loop(_, _, _, _, _)
\* the loop of get_leb_u32_at, with pos, result and shift
get_leb_u32_loop(bytes, offset, pos, acc, shift) ==
    IF pos > offset + HIGHEST_CHUNK
    THEN [res |-> "panic", v |-> 0, msg |-> "pos <= (offset + HIGHEST_CHUNK)"]
    ELSE IF pos + 1 > Len(bytes)
    THEN [res |-> "panic", v |-> 0, msg |-> "offset + length <= self.slice.len()"]
    ELSE IF pos = offset + HIGHEST_CHUNK
            /\ bytes[pos + 1] % (HIGHEST_CHUNK_MASK + 1) # bytes[pos + 1]
    THEN [res |-> "panic", v |-> 0, msg |-> "LEB integer is too big"]
    ELSE Only({IF bytes[pos + 1] < 128 THEN [res |-> "ok", v |-> a.v, msg |-> ""]
               ELSE get_leb_u32_loop(bytes, offset, pos + 1, a.v, shift + 7)
               : a \in {leb_u32_chunk(acc, bytes[pos + 1], shift)}})

\* InstructionAccumulator::get_leb_u32_at; the value is the signed view of the u32
get_leb_u32_at(bytes, offset) == get_leb_u32_loop(bytes, offset, offset, 0, 0)

\* InstructionAccumulator::get_leb_size_at: the length of the number at
\* offset of an instruction whose bytes ensure_instruction has accepted
get_leb_size_at(bytes, offset) == ensure_leb_at(bytes, offset).v

RECURSIVE block_table_loop(_, _, _, _, _)
\* the loop of get_block_table_targets over the n entries still to read: the
\* length of each is taken at offset + instr_size, its value at instr_size
block_table_loop(bytes, offset, instr_size, n, targets) ==
    IF n = 0 THEN [res |-> "ok", v |-> targets]
    ELSE Only({IF x.res # "ok" THEN [res |-> "panic", v |-> targets]
               ELSE block_table_loop(bytes, offset,
                                     instr_size + get_leb_size_at(bytes, offset + instr_size),
                                     n - 1, Append(targets, x.v))
               : x \in {get_leb_u32_at(bytes, instr_size)}})

\* InstructionCategory::get_block_table_targets: the vector of targets and the
\* default target after it
get_block_table_targets(bytes, offset) ==
    LET h == get_leb_u32_at(bytes, offset + 1)
    IN IF h.res # "ok" THEN [res |-> "panic", v |-> <<>>]
       ELSE block_table_loop(bytes, offset, 1 + get_leb_size_at(bytes, offset + 1),
                             h.v + 1, <<>>)

\* Instruction::get_block_table_targets: like every accessor of Instruction,
\* over the accumulator of the instruction's own bytes, at offset 0
instruction_block_table_targets(bytes) == get_block_table_targets(bytes, 0)

RECURSIVE read_items(_, _)
\* the loop of read_vec for n elements of one byte each (read_u8, read_leb_u32)
read_items(r, n) ==
    IF n = 0 THEN ROk(r, 0)
    ELSE Only({IF x.res # "ok" THEN x ELSE read_items(x.r, n - 1) : x \in {read_u8(r)}})

\* the elements of a vector of h.v one-byte elements, after its length h
vec_bytes_after(h) ==
    IF h.res # "ok" THEN h
    ELSE Only({IF b.res # "ok" THEN b ELSE ROk(b.r, h.v) : b \in {read_items(h.r, h.v)}})

\* read_vec(read_u8) and read_vec(read_leb_usize): the value is the length
read_vec_bytes(r) == Only({vec_bytes_after(h) : h \in {read_leb_u32(r)}})

read_bytes_to_end(r) == ROk([r EXCEPT !.pos = Min(r.lim, r.outer)], 0)

\* ensure_block_instruction, up to the first child: the block type bt
block_type_after(bt, depth) ==
    IF bt.res # "ok" \/ bt.v # BlockTypeNone THEN [res |-> "err", r |-> bt.r, depth |-> depth]
    ELSE [res |-> "ok", r |-> bt.r, depth |-> depth + 1]

\* one instruction with lead byte h, depth blocks deep: a single-byte
\* instruction, Loop with its block type, or End, which closes a block or
\* (at a depth below 0) the expression
ensure_instruction(h, depth) ==
    IF h.res # "ok" THEN [res |-> "err", r |-> h.r, depth |-> depth]
    ELSE IF h.v = OpEnd THEN [res |-> "ok", r |-> h.r, depth |-> depth - 1]
    ELSE IF h.v # OpLoop THEN [res |-> "ok", r |-> h.r, depth |-> depth]
    ELSE Only({block_type_after(bt, depth) : bt \in {read_u8(h.r)}})

RECURSIVE read_expression_bytes(_, _)
\* read_expression_bytes: instructions up to the End that closes the expression
read_expression_bytes(r, depth) ==
    Only({IF i.res # "ok" THEN RFail("err", i.r)
          ELSE IF i.depth < 0 THEN ROk(i.r, 0)
          ELSE read_expression_bytes(i.r, i.depth)
          : i \in {Only({ensure_instruction(h, depth) : h \in {read_u8(r)}})}})

\* read_vec(Locals::read) after its length h: no byte of the alphabet is a
\* value type, so a vector that is not empty fails
read_locals(h) == IF h.res # "ok" \/ h.v = 0 THEN h ELSE RFail("err", h.r)

\* TypeReader for Func, after the expression e was read from payload_reader
\* and with the reader src that the payload_reader was made on
Func_end(e, src) ==
    IF e.res # "ok" THEN RFail("err", e.r)
    ELSE IF ~is_at_end(e.r) THEN RFail("panic", e.r)
    ELSE ROk([src EXCEPT !.pos = e.r.pos], 0)

\* TypeReader for Func, after the size was read
Func_body(size) ==
    IF size.res # "ok" THEN size
    ELSE Only({IF locals.res # "ok" THEN RFail("err", locals.r)
               ELSE Only({Func_end(e, size.r) : e \in {read_expression_bytes(locals.r, 0)}})
               : locals \in {Only({read_locals(h)
                                   : h \in {read_leb_u32(ScopedReader(size.r, size.v))}})}})

\* TypeReader for Func
Func_read(r) == Only({Func_body(size) : size \in {read_leb_u32(r)}})

\* TypeReader for Data, after the memory index x was read
Data_body(x) ==
    IF x.res # "ok" THEN x
    ELSE Only({IF e.res # "ok" THEN RFail("err", e.r) ELSE read_vec_bytes(e.r)
               : e \in {read_expression_bytes(x.r, 0)}})

\* TypeReader for Data
Data_read(r) == Only({Data_body(x) : x \in {read_leb_u32(r)}})

RECURSIVE read_elements(_, _, _)
\* the loop of read_vec for n elements read by Func::read or Data::read
read_elements(id, r, n) ==
    IF n = 0 THEN ROk(r, 0)
    ELSE Only({IF x.res # "ok" THEN x ELSE read_elements(id, x.r, n - 1)
               : x \in {IF id = CodeSection THEN Func_read(r) ELSE Data_read(r)}})

\* the elements of a vector of h.v functions or data segments, after its length h
vec_after(id, h) ==
    IF h.res # "ok" THEN h
    ELSE Only({IF b.res # "ok" THEN b ELSE ROk(b.r, h.v) : b \in {read_elements(id, h.r, h.v)}})

\* read_vec(Func::read) and read_vec(Data::read): the value is the length
read_vec(id, r) == Only({vec_after(id, h) : h \in {read_leb_u32(r)}})

\* the ModuleBuilder of a new decoder, before the header is read
NewDecoder ==
    [phase |-> "header", current |-> TypeSection, typeidx |-> 0, funcs |-> 0,
     has_start |-> FALSE, msg |-> "", n |-> 0, ids |-> <<>>,
     last |-> [id |-> CustomSection, exact |-> TRUE, body_left |-> FALSE]]

\* ModuleBuilder::update_start, after the index v was read
update_start(d, v) ==
    IF v.res # "ok" THEN [res |-> v.res, r |-> v.r, msg |-> "read", d |-> d]
    ELSE IF d.has_start
    THEN [res |-> "err", r |-> v.r, msg |-> "Multiple start sections found", d |-> d]
    ELSE [res |-> "ok", r |-> v.r, msg |-> "", d |-> [d EXCEPT !.has_start = TRUE]]

\* append_to_vector of the vector v read for a section
append_to_vector(d, section_type, v) ==
    [res |-> v.res, r |-> v.r,
     msg |-> IF v.res = "panic" THEN "payload_reader.is_at_end()" ELSE "read",
     d |-> IF v.res # "ok" THEN d
           ELSE IF section_type = FunctionSection THEN [d EXCEPT !.typeidx = @ + v.v]
           ELSE IF section_type = CodeSection THEN [d EXCEPT !.funcs = @ + v.v]
           ELSE d]

\* ModuleBuilder::process_section on the builder of d
process_section(d, section_type, reader) ==
    CASE section_type = FunctionSection ->
            Only({append_to_vector(d, section_type, v) : v \in {read_vec_bytes(reader)}})
      [] section_type = StartSection ->
            Only({update_start(d, v) : v \in {read_leb_u32(reader)}})
      [] section_type \in {CodeSection, DataSection} ->
            Only({append_to_vector(d, section_type, v) : v \in {read_vec(section_type, reader)}})

\* ModuleBuilder::get_next_section_type
get_next_section_type(current_section_type) ==
    IF current_section_type = DataSection THEN NoSection ELSE current_section_type + 1

RECURSIVE ExpectedSection(_, _)
\* the `while let Some(expected_section_type)` walk: the section type it
\* stops at, or NoSection when it runs off the end
ExpectedSection(current_section_type, section_type) ==
    IF current_section_type = NoSection \/ current_section_type = section_type
    THEN current_section_type
    ELSE ExpectedSection(get_next_section_type(current_section_type), section_type)

\* the end of one turn of the loop of RawModule::read
WholeSection(d, section_reader) ==
    IF ~is_at_end(section_reader)
    THEN [d EXCEPT !.phase = "panic", !.msg = "Failed to read whole section"]
    ELSE d

\* skip_custom, had it taken the custom section for the next one in order
skip_custom_in_order(d, section_name) ==
    IF section_name.res # "ok" THEN [d EXCEPT !.phase = "err", !.msg = "read"]
    ELSE WholeSection([d EXCEPT !.current = get_next_section_type(@)],
                      read_bytes_to_end(section_name.r).r)

\* a custom section, after its name was read
skip_custom(d, section_name) ==
    IF section_name.res # "ok" THEN [d EXCEPT !.phase = "err", !.msg = "read"]
    ELSE WholeSection(d, read_bytes_to_end(section_name.r).r)

\* a section that is not custom, after the walk stopped at expected and with
\* the outcome p of process_section
ordered_section(d, expected, p) ==
    IF expected = NoSection
    THEN [d EXCEPT !.phase = "panic", !.current = NoSection,
                   !.msg = "Sections are in unexpected order"]
    ELSE IF p.res # "ok"
    THEN [d EXCEPT !.phase = p.res, !.current = expected, !.msg = p.msg]
    ELSE WholeSection([p.d EXCEPT !.current = expected], p.r)

\* one turn of the loop of RawModule::read, for a section of type
\* section_type whose section_length bytes are payload
read_section(d, section_type, payload) ==
    IF section_type = CustomSection
    THEN Only({skip_custom(d, section_name)
               : section_name \in {read_vec_bytes(NewReader(payload))}})
    ELSE Only({ordered_section(d, ExpectedSection(d.current, section_type), p)
               : p \in {process_section(d, section_type, NewReader(payload))}})

\* ModuleBuilder::make_module
make_module(d) ==
    IF d.typeidx = 0 THEN [d EXCEPT !.phase = "err", !.msg = "No functions found"]
    ELSE IF d.typeidx # d.funcs
    THEN [d EXCEPT !.phase = "err", !.msg = "TypeIdx and code tables do not match sizes"]
    ELSE [d EXCEPT !.phase = "ok"]

\* the store of the instance: a memory of TestMinPages zeroed pages that may
\* grow to TestMaxPages, and one mutable i32 global holding 0
InitialStore == <<TestMinPages, {}, <<Global(TRUE, "I32", I32Entry(0))>>>>

InitInterpreter ==
    /\ entries = <<>>
    /\ frames = <<>>
    /\ ctl = <<>>
    /\ mode = "idle"
    /\ ret = Nil
    /\ pages = InitialStore[1]
    /\ mem = InitialStore[2]
    /\ glob = InitialStore[3]
    /\ invocations = 0
    /\ trapped = FALSE
    /\ cur = 0
    /\ committed = InitialStore
    /\ steps = 0
    /\ last = [ev |-> "init"]

\* no instantiation is under way
NotInstantiating == [phase |-> "none"]

InitInstance == InitInterpreter /\ dec = NewDecoder /\ inst = NotInstantiating

Init ==
    InitInstance /\ budget = [steps |-> MaxSteps, invocations |-> 1, alphabet |-> "control",
                              overflow_checks |-> TRUE]

InitReinvoke ==
    /\ InitInstance
    /\ budget = [steps |-> MaxStepsReinvoke, invocations |-> MaxInvocations,
                 alphabet |-> "control", overflow_checks |-> TRUE]

InitMemory ==
    /\ InitInstance
    /\ budget = [steps |-> MaxStepsMemory, invocations |-> 1, alphabet |-> "memory",
                 overflow_checks |-> TRUE]

InitDivide ==
    /\ InitInstance
    /\ budget = [steps |-> MaxStepsDivide, invocations |-> 1, alphabet |-> "divide",
                 overflow_checks |-> TRUE]

\* the build checks arithmetic overflow (a debug build) or does not (a release build)
InitShift ==
    /\ InitInstance
    /\ \E oc \in BOOLEAN :
          budget = [steps |-> MaxStepsShift, invocations |-> 1, alphabet |-> "shift",
                    overflow_checks |-> oc]

\* what an unconstrained source may yield in this state
Available == IF steps < budget.steps THEN Alphabet(budget.alphabet) ELSE {}

\* The top activation is execute_expression_internal and it fetches ins
Fetch(ins) ==
    /\ mode = "exec"
    /\ ins \in IterNext(Top.src, Top.pc, Available)
    /\ UNCHANGED <<budget, dec, inst>>
    /\ steps' = IF Top.src.kind = "any" /\ ins # EndOfExpr THEN steps + 1 ELSE steps

Fetched == IF Top.src.kind = "code" THEN [ctl EXCEPT ![Len(ctl)].pc = @ + 1] ELSE ctl

\* execute_single_instruction returned Ok(Done): the inner loop goes on
Done(es, st) ==
    /\ entries' = es
    /\ ctl' = Fetched
    /\ pages' = st[1] /\ mem' = st[2] /\ glob' = st[3]
    /\ committed' = st
    /\ UNCHANGED <<frames, mode, ret, invocations, trapped, cur>>

\* a trap that restores the store the instance was created with
Trap_rollback(es, st, msg) ==
    /\ entries' = es
    /\ ctl' = Pop(ctl)
    /\ mode' = "ret"
    /\ ret' = Err(msg)
    /\ pages' = InitialStore[1] /\ mem' = InitialStore[2] /\ glob' = InitialStore[3]
    /\ UNCHANGED <<frames, invocations, trapped, cur, committed>>

\* execute_single_instruction returned Err: `?` hands it to the caller of
\* execute_expression_internal; the stack and the store stay as the failing
\* instruction left them
Trap(es, st, msg) ==
    /\ entries' = es
    /\ ctl' = Pop(ctl)
    /\ mode' = "ret"
    /\ ret' = Err(msg)
    /\ pages' = st[1] /\ mem' = st[2] /\ glob' = st[3]
    /\ UNCHANGED <<frames, invocations, trapped, cur, committed>>

\* a panic!, a failed assert!, unimplemented!() or an arithmetic overflow abort
Panic(cause) ==
    /\ mode' = "panic"
    /\ ret' = Err(cause)
    /\ UNCHANGED <<entries, frames, ctl, pages, mem, glob, invocations, trapped, cur, committed>>

\* A value r comes back into execute_expression_internal (execute_core.rs 673-711)
\* at the top of c; an empty c is the embedder that started the invocation.
Deliver(c, r) ==
    IF c = <<>>
    THEN /\ ctl' = c
         /\ mode' = IF IsErr(r) THEN "trap" ELSE "done"
         /\ ret' = r
         /\ trapped' = (trapped \/ IsErr(r))
    ELSE /\ trapped' = trapped
         /\ IF IsErr(r) \/ IsBranch(r)
            THEN ctl' = Pop(c) /\ mode' = "ret" /\ ret' = r
            ELSE ctl' = c /\ mode' = "exec" /\ ret' = Nil

\* ------------------------------------- execute_single_instruction (69-446)
RDone(es, st) == [res |-> "done", entries |-> es, st |-> st, msg |-> ""]
RErr(es, st, msg) == [res |-> "err", entries |-> es, st |-> st, msg |-> msg]
RPanic(es, st, msg) == [res |-> "panic", entries |-> es, st |-> st, msg |-> msg]

TopEntry(es) == es[Len(es)]

\* The store is mutated in place: st is the store as the handler leaves it,
\* whether it succeeds or fails.
\* One operand is probed with get_stack_top and removed with Stack::pop:
\* "ok", or the way the probe or the pop fails.
PopOperand(fs, es) ==
    LET g == get_stack_top(fs, es, 1)
    IN IF g = "err" THEN "Not enough values on stack"
       ELSE IF g = "panic" THEN "working_top assert"
       ELSE IF pop_n(fs, es, 1).panic THEN "pop assert"
       ELSE "ok"

\* As PopOperand, for an operand converted with u32::try_from before the pop
PopI32Operand(fs, es) ==
    LET g == get_stack_top(fs, es, 1)
    IN IF g = "err" THEN "Not enough values on stack"
       ELSE IF g = "panic" THEN "working_top assert"
       ELSE IF TopEntry(es).ty # "I32" THEN "Cannot convert stack entry"
       ELSE IF pop_n(fs, es, 1).panic THEN "pop assert"
       ELSE "ok"

\* the result of a handler whose operand could not be taken
OperandFailure(q, es, st) ==
    IF q \in {"working_top assert", "pop assert"} THEN RPanic(es, st, q) ELSE RErr(es, st, q)

\* the stack after Stack::pop
Popped(es) == SubSeq(es, 1, Len(es) - 1)

LocalCount(fs) ==
    IF fs = <<>> THEN 0 ELSE fs[Len(fs)].parameter_count + fs[Len(fs)].local_count

exec_local_get(ins, fs, es, st) ==
    IF ins.a >= LocalCount(fs) THEN RErr(es, st, "Local index out of range")
    ELSE RDone(Append(es, es[frame_base(fs) + ins.a + 1]), st)

exec_local_set(ins, fs, es, st) ==
    LET q == PopOperand(fs, es)
        arg == TopEntry(es)
        es2 == Popped(es)
    IN IF q # "ok" THEN OperandFailure(q, es, st)
       ELSE IF ins.a >= LocalCount(fs) THEN RErr(es2, st, "Local index out of range")
       ELSE RDone([es2 EXCEPT ![frame_base(fs) + ins.a + 1] = arg], st)

exec_global_set(ins, fs, es, st) ==
    LET q == PopOperand(fs, es)
        arg == TopEntry(es)
        es2 == Popped(es)
    IN IF q # "ok" THEN OperandFailure(q, es, st)
       ELSE IF ins.a >= Len(st[3]) THEN RErr(es2, st, "Global index out of range")
       ELSE LET r == set_value(st[3][ins.a + 1], arg)
                st2 == <<st[1], st[2], [st[3] EXCEPT ![ins.a + 1] = r.g]>>
            IN IF r.ok THEN RDone(es2, st2)
               ELSE RErr(es2, st2, "Global set failed")

\* the store of the instance has one memory
MemoryCount == 1

\* the number of bytes IntType has for each load and store
WidthOf(op) == IF op \in {"I32Load8U", "I32Store8"} THEN 1 ELSE 4

\* base_address + offset, with a base of 2^31 or more left out of reach
FinalAddress(base, offset) == IF base < 0 THEN -1 ELSE base + offset

\* DataStore::read_data
read_data(st, mem_idx, offset, length) ==
    IF mem_idx < MemoryCount
    THEN LET r == get_data(st[1], st[2], offset, length)
         IN [ok |-> r.ok, data |-> r.data,
             msg |-> IF r.ok THEN "" ELSE "Attempting to access outside allocated memory"]
    ELSE [ok |-> FALSE, data |-> <<>>, msg |-> "Memory index out of range"]

\* DataStore::write_data
write_data(st, mem_idx, offset, data) ==
    IF mem_idx < MemoryCount
    THEN LET r == set_data(st[1], st[2], offset, data)
         IN [ok |-> r.ok, mem |-> r.mem,
             msg |-> IF r.ok THEN "" ELSE "Attempting to access outside allocated memory"]
    ELSE [ok |-> FALSE, mem |-> st[2], msg |-> "Memory index out of range"]

\* mem_load: the first immediate of the pair is taken as the memory index
mem_load(ins, fs, es, st) ==
    LET mem_idx == ins.align
        offset == ins.a
        q == PopI32Operand(fs, es)
        base_address == TopEntry(es)
        es1 == Popped(es)
        final_address == FinalAddress(base_address.v, offset)
        r == read_data(st, mem_idx, final_address, WidthOf(ins.op))
    IN IF q # "ok" THEN OperandFailure(q, es, st)
       ELSE IF r.ok THEN RDone(Append(es1, I32Entry(from_bytes(r.data))), st)
       ELSE RErr(es1, st, r.msg)

\* mem_store: the first immediate of the pair is taken as the memory index
mem_store(ins, fs, es, st) ==
    LET mem_idx == ins.align
        offset == ins.a
        q1 == PopI32Operand(fs, es)
        value == TopEntry(es)
        es1 == Popped(es)
        q2 == PopI32Operand(fs, es1)
        base_address == TopEntry(es1)
        es2 == Popped(es1)
        final_address == FinalAddress(base_address.v, offset)
        r == write_data(st, mem_idx, final_address, to_bytes(value.v, WidthOf(ins.op)))
        st2 == <<st[1], r.mem, st[3]>>
    IN IF q1 # "ok" THEN OperandFailure(q1, es, st)
       ELSE IF q2 # "ok" THEN OperandFailure(q2, es1, st)
       ELSE IF r.ok THEN RDone(es2, st2)
       ELSE RErr(es2, st2, r.msg)

\* |b| for b # INT_MIN
Magnitude(b) == IF b < 0 THEN 0 - b ELSE b

\* iN::wrapping_div for b # 0, on values of the 32-bit range: the quotient
\* truncated towards zero, and INT_MIN for INT_MIN / -1
wrapping_div_s(a, b) ==
    IF b = INT_MIN THEN (IF a = INT_MIN THEN 1 ELSE 0)
    ELSE IF a = INT_MIN /\ b = NEG1 THEN INT_MIN
    ELSE IF a % Magnitude(b) # 0 /\ ((a < 0) # (b < 0)) THEN (a \div b) + 1
    ELSE a \div b

\* iN::wrapping_rem for b # 0: the remainder has the sign of the dividend
wrapping_rem_s(a, b) ==
    IF b = INT_MIN THEN (IF a = INT_MIN THEN 0 ELSE a)
    ELSE IF a >= 0 \/ a % Magnitude(b) = 0 THEN a % Magnitude(b)
    ELSE (a % Magnitude(b)) - Magnitude(b)

\* u32 division for b # 0 on the signed view of the operands: a negative view
\* stands for the value plus 2^32
UDivRem32(a, b) ==
    IF b < 0 THEN (IF a < 0 /\ a >= b THEN [q |-> 1, r |-> a - b] ELSE [q |-> 0, r |-> a])
    ELSE IF a >= 0 THEN [q |-> a \div b, r |-> a % b]
    ELSE IF b = 1 THEN [q |-> a, r |-> 0]
    ELSE LET h == ((a \div 2) + 1073741824) + 1073741824
             l == a % 2
             q1 == h \div b
             r1 == h % b
         IN IF r1 >= b - r1 - l
            THEN [q |-> 2 * q1 + 1, r |-> r1 - (b - r1 - l)]
            ELSE [q |-> 2 * q1, r |-> 2 * r1 + l]


BitWidth(op) == IF op \in ShiftOps32 THEN 32 ELSE 64

\* "I32ShrU" -> "ShrU"
ShiftKind(op) ==
    CASE op \in {"I32Shl", "I64Shl"} -> "Shl"
      [] op \in {"I32ShrS", "I64ShrS"} -> "ShrS"
      [] op \in {"I32ShrU", "I64ShrU"} -> "ShrU"
      [] op \in {"I32Rotl", "I64Rotl"} -> "Rotl"
      [] op \in {"I32Rotr", "I64Rotr"} -> "Rotr"

\* b % 32 as the closures compute it, for the 32-bit and the 64-bit opcodes
\* alike: on the signed operands of ShrS the remainder has the sign of b, on
\* the unsigned operands of the others it is the residue of b
ShiftAmount(op, b) ==
    IF ShiftKind(op) = "ShrS" THEN wrapping_rem_s(b, 32) ELSE b % 32

\* a shift or rotate closure: a negative amount is an overflow, which aborts
\* where the build checks it and is masked to the bit width where it does not
ShiftFunc(op, a, b) ==
    LET k == ShiftAmount(op, b)
        N == BitWidth(op)
    IN IF k < 0 /\ budget.overflow_checks THEN [panic |-> TRUE, v |-> 0]
       ELSE [panic |-> FALSE,
             v |-> Value(ShiftBits(ShiftKind(op), Bits(a, N), IF k < 0 THEN k + N ELSE k, N), N)]

\* the closure an arithmetic opcode hands to binary_op; "panic" where it aborts.
\* u32::wrapping_add, on the signed views of the operands
wrapping_add(a, b) ==
    IF a >= 0 /\ b >= 0 /\ a > 2147483647 - b
    THEN (a - 2147483647 - 1) + (b - 2147483647 - 1)
    ELSE IF a < 0 /\ b < 0 /\ a < INT_MIN - b
    THEN (a + 2147483647 + 1) + (b + 2147483647 + 1)
    ELSE a + b

\* The 64-bit opcodes are given for operands and results of the 32-bit range,
\* the unsigned ones for operands that are not negative.
ArithFunc(op, a, b) ==
    CASE op = "I32Add" -> [panic |-> FALSE, v |-> wrapping_add(a, b)]
      [] op = "I64Sub" -> [panic |-> FALSE, v |-> a - b]
      [] op = "I64Ne" -> [panic |-> FALSE, v |-> IF a # b THEN 1 ELSE 0]
      [] op \in {"I32DivS", "I64DivS"} ->
            IF b = 0 THEN [panic |-> TRUE, v |-> 0] ELSE [panic |-> FALSE, v |-> wrapping_div_s(a, b)]
      [] op \in {"I32RemS", "I64RemS"} ->
            IF b = 0 THEN [panic |-> TRUE, v |-> 0] ELSE [panic |-> FALSE, v |-> wrapping_rem_s(a, b)]
      [] op = "I32DivU" ->
            IF b = 0 THEN [panic |-> TRUE, v |-> 0] ELSE [panic |-> FALSE, v |-> UDivRem32(a, b).q]
      [] op = "I32RemU" ->
            IF b = 0 THEN [panic |-> TRUE, v |-> 0] ELSE [panic |-> FALSE, v |-> UDivRem32(a, b).r]
      [] op = "I64DivU" ->
            IF b = 0 THEN [panic |-> TRUE, v |-> 0] ELSE [panic |-> FALSE, v |-> a \div b]
      [] op = "I64RemU" ->
            IF b = 0 THEN [panic |-> TRUE, v |-> 0] ELSE [panic |-> FALSE, v |-> a % b]
      [] op \in ShiftOps32 \cup ShiftOps64 -> ShiftFunc(op, a, b)

ArithOps ==
    DivOps32 \cup DivOps64 \cup ShiftOps32 \cup ShiftOps64 \cup {"I32Add", "I64Sub", "I64Ne"}

\* the type ParamType and RetType convert from and to
OperandType(op) == IF op \in DivOps32 \cup ShiftOps32 \cup {"I32Add"} THEN "I32" ELSE "I64"

\* the type the result is pushed as: binary_boolean_op pushes a u32
ResultType(op) == IF op = "I64Ne" THEN "I32" ELSE OperandType(op)

\* stack_ops::binary_op: both operands are popped before they are converted
binary_op(ins, fs, es, st) ==
    LET g == get_stack_top(fs, es, 2)
        p == pop_n(fs, es, 2)
        a == es[Len(es) - 1]
        b == es[Len(es)]
        es2 == SubSeq(es, 1, Len(es) - 2)
        ty == OperandType(ins.op)
        r == ArithFunc(ins.op, a.v, b.v)
    IN IF g = "err" THEN RErr(es, st, "Not enough values on stack")
       ELSE IF g = "panic" THEN RPanic(es, st, "working_top assert")
       ELSE IF p.panic THEN RPanic(es, st, "pop assert")
       ELSE IF a.ty # ty \/ b.ty # ty THEN RErr(es2, st, "Cannot convert stack entry")
       ELSE IF r.panic THEN RPanic(es2, st, "arithmetic")
       ELSE RDone(Append(es2, [ty |-> ResultType(ins.op), v |-> r.v]), st)

exec_memory_size(ins, fs, es, st) == RDone(Append(es, I32Entry(st[1])), st)

exec_memory_grow(ins, fs, es, st) ==
    LET original_size == st[1]
        q == PopI32Operand(fs, es)
        n == TopEntry(es)
        es2 == Popped(es)
        r == grow_by(st[1], n.v)
        st2 == <<r.pages, st[2], st[3]>>
    IN IF q # "ok" THEN OperandFailure(q, es, st)
       ELSE IF r.ok THEN RDone(Append(es2, I32Entry(original_size)), st2)
       ELSE RDone(Append(es2, I32Entry(NEG1)), st2)

exec_drop(ins, fs, es, st) ==
    LET q == PopOperand(fs, es)
    IN IF q # "ok" THEN OperandFailure(q, es, st) ELSE RDone(Popped(es), st)

\* a Select that pops both values before it compares their types
exec_select_pop_all(ins, fs, es, st) ==
    LET q == PopI32Operand(fs, es)
        selector == TopEntry(es).v
        es2 == Popped(es)
        g == get_stack_top(fs, es2, 2)
        p == pop_n(fs, es2, 2)
        a == es2[Len(es2) - 1]
        b == es2[Len(es2)]
    IN IF q # "ok" THEN OperandFailure(q, es, st)
       ELSE IF g = "err" THEN RErr(es2, st, "Not enough values on stack")
       ELSE IF g = "panic" THEN RPanic(es2, st, "working_top assert")
       ELSE IF p.panic THEN RPanic(es2, st, "pop assert")
       ELSE IF ~is_same_type(a, b) THEN RErr(p.entries, st, "Select types do not match")
       ELSE RDone(Append(p.entries, IF selector = 0 THEN b ELSE a), st)

\* Select (130-147): the selector is converted and popped, then the two values
\* are probed and compared before they are popped
exec_select(ins, fs, es, st) ==
    LET q == PopI32Operand(fs, es)
        selector == TopEntry(es).v
        es2 == Popped(es)
        g == get_stack_top(fs, es2, 2)
        p == pop_n(fs, es2, 2)
        a == es2[Len(es2) - 1]
        b == es2[Len(es2)]
    IN IF q # "ok" THEN OperandFailure(q, es, st)
       ELSE IF g = "err" THEN RErr(es2, st, "Not enough values on stack")
       ELSE IF g = "panic" THEN RPanic(es2, st, "working_top assert")
       ELSE IF ~is_same_type(a, b) THEN RErr(es2, st, "Select types do not match")
       ELSE IF p.panic THEN RPanic(es2, st, "pop assert")
       ELSE RDone(Append(p.entries, IF selector = 0 THEN b ELSE a), st)

SingleOps == {"I32Const", "I64Const", "Drop", "Unreachable", "LocalGet", "LocalSet",
              "GlobalSet", "MemorySize", "MemoryGrow", "Select"} \cup MemOps \cup ArithOps

execute_single_instruction(ins, fs, es, st) ==
    CASE ins.op = "Unreachable" -> RErr(es, st, "Unreachable opcode")
      [] ins.op = "Drop" -> exec_drop(ins, fs, es, st)
      [] ins.op = "Select" -> exec_select(ins, fs, es, st)
      [] ins.op = "I32Const" -> RDone(Append(es, I32Entry(ins.a)), st)
      [] ins.op = "I64Const" -> RDone(Append(es, I64Entry(ins.a)), st)
      [] ins.op = "LocalGet" -> exec_local_get(ins, fs, es, st)
      [] ins.op = "LocalSet" -> exec_local_set(ins, fs, es, st)
      [] ins.op = "GlobalSet" -> exec_global_set(ins, fs, es, st)
      [] ins.op \in {"I32Load", "I32Load8U"} -> mem_load(ins, fs, es, st)
      [] ins.op \in {"I32Store", "I32Store8"} -> mem_store(ins, fs, es, st)
      [] ins.op \in ArithOps -> binary_op(ins, fs, es, st)
      [] ins.op = "MemorySize" -> exec_memory_size(ins, fs, es, st)
      [] ins.op = "MemoryGrow" -> exec_memory_grow(ins, fs, es, st)

\* --------------------------------------------------------------- actions
F(idx) == Funcs[idx + 1]

\* the arguments an embedder passes: zero, or more pages than the memory may hold
Args(func) ==
    IF func.params = <<>> THEN {<<>>} ELSE {<<I32Entry(v)>> : v \in {0, TestMaxPages}}

\* an invocation that runs on the Stack the previous invocation left behind
Invoke_on_old_stack(f, args) ==
    /\ mode \in {"idle", "done", "trap"}
    /\ invocations < budget.invocations
    /\ LET r == push_typed_frame(frames, entries \o args, F(f))
       IN /\ r.err = ""
          /\ frames' = r.frames
          /\ entries' = r.entries
          /\ ctl' = <<CallAct(f, Len(entries), entries, CurLabels, Len(args), Len(frames)), ExprAct(F(f).expr)>>
    /\ mode' = "exec"
    /\ ret' = Nil
    /\ invocations' = invocations + 1
    /\ cur' = f
    /\ committed' = store
    /\ last' = [ev |-> "invoke"]
    /\ UNCHANGED <<pages, mem, glob, trapped, steps, budget, dec, inst>>

\* The embedder invokes function f on a new Stack holding the arguments:
\* FunctionModule::execute_function -> WasmExprCallable::call, up to the
\* first instruction fetch.
Invoke(f, args) ==
    /\ mode \in {"idle", "done", "trap"}
    /\ invocations < budget.invocations
    /\ LET r == push_typed_frame(<<>>, args, F(f))
       IN /\ r.err = ""
          /\ frames' = r.frames
          /\ entries' = r.entries
          /\ ctl' = <<CallAct(f, 0, <<>>, <<>>, Len(args), 0), ExprAct(F(f).expr)>>
    /\ mode' = "exec"
    /\ ret' = Nil
    /\ invocations' = invocations + 1
    /\ cur' = f
    /\ committed' = store
    /\ last' = [ev |-> "invoke"]
    /\ UNCHANGED <<pages, mem, glob, trapped, steps, budget, dec, inst>>

\* the operands a load or store finds: its base address, and the value of a store
MemOperands(ins, fs, es) ==
    IF ins.op \in {"I32Store", "I32Store8"}
    THEN IF working_count(fs, es) >= 2 /\ es[Len(es)].ty = "I32" /\ es[Len(es) - 1].ty = "I32"
         THEN [ok |-> TRUE, base |-> es[Len(es) - 1].v, value |-> es[Len(es)].v]
         ELSE [ok |-> FALSE]
    ELSE IF working_count(fs, es) >= 1 /\ es[Len(es)].ty = "I32"
         THEN [ok |-> TRUE, base |-> es[Len(es)].v, value |-> 0]
         ELSE [ok |-> FALSE]

\* the operands an arithmetic instruction finds
BinOperands(ins, fs, es) ==
    IF /\ working_count(fs, es) >= 2
       /\ es[Len(es)].ty = OperandType(ins.op)
       /\ es[Len(es) - 1].ty = OperandType(ins.op)
    THEN [ok |-> TRUE, a |-> es[Len(es) - 1].v, b |-> es[Len(es)].v]
    ELSE [ok |-> FALSE]

\* what the step of ins with result r is recorded as
Observed(ins, r) ==
    IF ins.op \in MemOps /\ MemOperands(ins, frames, entries).ok
    THEN [ev |-> "mem", op |-> ins.op, align |-> ins.align, offset |-> ins.a,
          base |-> MemOperands(ins, frames, entries).base,
          value |-> MemOperands(ins, frames, entries).value,
          width |-> WidthOf(ins.op), pages |-> pages, before |-> mem,
          res |-> r.res, msg |-> r.msg,
          pushed |-> IF r.res = "done" /\ r.entries # <<>> THEN TopEntry(r.entries).v ELSE 0,
          same |-> (execute_single_instruction([ins EXCEPT !.align = 0],
                                               frames, entries, store) = r)]
    ELSE IF ins.op \in ArithOps /\ BinOperands(ins, frames, entries).ok
    THEN [ev |-> "bin", op |-> ins.op,
          a |-> BinOperands(ins, frames, entries).a,
          b |-> BinOperands(ins, frames, entries).b,
          res |-> r.res,
          pushed |-> IF r.res = "done" THEN TopEntry(r.entries).v ELSE 0]
    ELSE IF ins.op = "Select"
    THEN [ev |-> "select", res |-> r.res, msg |-> r.msg, before |-> entries,
          wc |-> working_count(frames, entries)]
    ELSE IF r.res = "err" THEN [ev |-> "ins_err"]
    ELSE IF r.res = "panic" THEN [ev |-> "panic"]
    ELSE IF ins.op = "MemoryGrow"
    THEN [ev |-> "grow", n |-> TopEntry(entries).v,
          p |-> TopEntry(r.entries).v, before |-> pages]
    ELSE IF ins.op = "MemorySize" /\ last.ev = "grow"
    THEN [ev |-> "size", n |-> last.n, p |-> last.p,
          before |-> last.before, pushed |-> TopEntry(r.entries).v]
    ELSE [ev |-> "ins"]

\* execute_inner_loop: one instruction that is not a control instruction
ExecSingle(ins) ==
    /\ Fetch(ins)
    /\ ins.op \in SingleOps
    /\ LET r == execute_single_instruction(ins, frames, entries, store)
       IN /\ CASE r.res = "done" -> Done(r.entries, r.st)
                [] r.res = "err" -> Trap(r.entries, r.st, r.msg)
                [] r.res = "panic" -> Panic(r.msg)
          /\ last' = Observed(ins, r)

\* iter.next() is None: execute_expression_internal returns Ok(no_branch)
ExprEnd ==
    /\ Fetch(EndOfExpr)
    /\ ctl' = Pop(ctl)
    /\ mode' = "ret"
    /\ ret' = no_branch
    /\ last' = [ev |-> "end"]
    /\ UNCHANGED <<entries, frames, pages, mem, glob, invocations, trapped, cur, committed>>

\* a block_arity that gives a Loop the results of its block type
block_arity_of_type(block_type, is_loop) == IF block_type = "None" THEN 0 ELSE 1

\* a block_arity of one result for every block
block_arity_always(block_type, is_loop) == 1

\* block_arity of execute_block_expression (538-542)
block_arity(block_type, is_loop) == IF is_loop \/ block_type = "None" THEN 0 ELSE 1

\* execute_block_expression up to the call of execute_expression_internal
EnterBlock(ins, src, es) ==
    /\ entries' = es
    /\ frames' = push_label(frames, es, block_arity(ins.bt, ins.op = "Loop"))
    /\ ctl' = Fetched \o <<BlockAct(ins.op, ins.bt, ins.op = "Loop", src, Len(CurLabels),
                                    Len(es)),
                           ExprAct(src)>>
    /\ last' = [ev |-> "enter"]
    /\ UNCHANGED <<mode, ret, pages, mem, glob, invocations, trapped, cur, committed>>

\* Block and Loop: execute_block
ExecBlock(ins) ==
    /\ Fetch(ins)
    /\ ins.op \in {"Block", "Loop"}
    /\ EnterBlock(ins, ins.body, entries)

\* If: execute_if
ExecIf(ins) ==
    /\ Fetch(ins)
    /\ ins.op = "If"
    /\ LET g == get_stack_top(frames, entries, 1)
           p == pop_n(frames, entries, 1)
       IN IF g = "err" THEN Trap(entries, store, "Not enough values on stack") /\ last' = [ev |-> "ins_err"]
          ELSE IF g = "panic" \/ p.panic THEN Panic("working_top assert") /\ last' = [ev |-> "panic"]
          ELSE IF TopEntry(entries).ty # "I32"
          THEN Trap(entries, store, "Cannot convert stack entry") /\ last' = [ev |-> "ins_err"]
          ELSE IF TopEntry(entries).v # 0 THEN EnterBlock(ins, ins.body, p.entries)
          ELSE IF ins.has_else THEN EnterBlock(ins, ins.els, p.entries)
          ELSE IF ins.bt # "None"
          THEN Trap(p.entries, store, "If with block type should have an else block")
               /\ last' = [ev |-> "ins_err"]
          ELSE /\ Done(p.entries, store)
               /\ last' = [ev |-> "fall", op |-> "If", bt |-> ins.bt,
                           nlab0 |-> Len(CurLabels), h0 |-> Len(p.entries), popped |-> 0]

\* A branch leaves execute_expression_internal at once (709-711)
TakeBranch(es, k) ==
    /\ entries' = es
    /\ ctl' = Pop(ctl)
    /\ mode' = "ret"
    /\ ret' = branch_target(k)
    /\ last' = [ev |-> "br", k |-> k, labs |-> CurLabels, es |-> es, passed |-> 0]
    /\ UNCHANGED <<frames, pages, mem, glob, invocations, trapped, cur, committed>>

\* Br: execute_br
ExecBr(ins) ==
    /\ Fetch(ins)
    /\ ins.op = "Br"
    /\ TakeBranch(entries, ins.a)

\* BrIf: execute_br_if
ExecBrIf(ins) ==
    /\ Fetch(ins)
    /\ ins.op = "BrIf"
    /\ LET g == get_stack_top(frames, entries, 1)
           p == pop_n(frames, entries, 1)
       IN IF g = "err" THEN Trap(entries, store, "Not enough values on stack") /\ last' = [ev |-> "ins_err"]
          ELSE IF g = "panic" \/ p.panic THEN Panic("working_top assert") /\ last' = [ev |-> "panic"]
          ELSE IF TopEntry(entries).ty # "I32"
          THEN Trap(entries, store, "Cannot convert stack entry") /\ last' = [ev |-> "ins_err"]
          ELSE IF TopEntry(entries).v # 0 THEN TakeBranch(p.entries, ins.a)
          ELSE Done(p.entries, store) /\ last' = [ev |-> "ins"]

\* an execute_br_table that takes the index modulo the number of targets
execute_br_table_modulo(labels, fs, es) ==
    LET q == PopI32Operand(fs, es)
        idx == TopEntry(es).v
        n == Len(labels)
    IN IF n = 0 THEN [res |-> "panic", msg |-> "labels.len() > 0", entries |-> es, k |-> 0, idx |-> 0]
       ELSE IF q \in {"working_top assert", "pop assert"}
       THEN [res |-> "panic", msg |-> q, entries |-> es, k |-> 0, idx |-> 0]
       ELSE IF q # "ok" THEN [res |-> "err", msg |-> q, entries |-> es, k |-> 0, idx |-> 0]
       ELSE [res |-> "br", msg |-> "", entries |-> Popped(es),
             k |-> labels[(IF idx < 0 THEN n - 1 ELSE idx % n) + 1], idx |-> idx]

\* execute_br_table: the index is a u32, so an operand whose signed view is
\* negative is above every target count
execute_br_table(labels, fs, es) ==
    LET q == PopI32Operand(fs, es)
        idx == TopEntry(es).v
        n == Len(labels)
    IN IF n = 0 THEN [res |-> "panic", msg |-> "labels.len() > 0", entries |-> es, k |-> 0, idx |-> 0]
       ELSE IF q \in {"working_top assert", "pop assert"}
       THEN [res |-> "panic", msg |-> q, entries |-> es, k |-> 0, idx |-> 0]
       ELSE IF q # "ok" THEN [res |-> "err", msg |-> q, entries |-> es, k |-> 0, idx |-> 0]
       ELSE [res |-> "br", msg |-> "", entries |-> Popped(es),
             k |-> labels[(IF idx < 0 \/ idx > n - 1 THEN n - 1 ELSE idx) + 1], idx |-> idx]

\* BrTable: the targets are decoded from the instruction, then execute_br_table
ExecBrTable(ins) ==
    /\ Fetch(ins)
    /\ ins.op = "BrTable"
    /\ LET t == instruction_block_table_targets(ins.bytes)
           r == execute_br_table(t.v, frames, entries)
       IN IF t.res # "ok" THEN Panic("LEB integer is too big") /\ last' = [ev |-> "panic"]
          ELSE IF r.res = "panic" THEN Panic(r.msg) /\ last' = [ev |-> "panic"]
          ELSE IF r.res = "err" THEN Trap(entries, store, r.msg) /\ last' = [ev |-> "ins_err"]
          ELSE /\ entries' = r.entries
               /\ ctl' = Pop(ctl)
               /\ mode' = "ret"
               /\ ret' = branch_target(r.k)
               /\ last' = [ev |-> "br", k |-> r.k, labs |-> CurLabels, es |-> r.entries,
                           passed |-> 0,
                           table |-> t.v, idx |-> r.idx]
               /\ UNCHANGED <<frames, pages, mem, glob, invocations, trapped, cur, committed>>

\* Return and CallIndirect are unimplemented!() in execute_expression_internal
ExecUnimplemented(ins) ==
    /\ Fetch(ins)
    /\ ins.op \in {"Return", "CallIndirect"}
    /\ Panic(ins.op)
    /\ last' = [ev |-> "panic"]

\* Call: execute_call -> WasmExprCallable::call up to the first fetch
ExecCall(ins) ==
    /\ Fetch(ins)
    /\ ins.op = "Call"
    /\ IF ins.a >= Len(Funcs)
       THEN Trap(entries, store, "Callable index out of range") /\ last' = [ev |-> "ins_err"]
       ELSE LET r == push_typed_frame(frames, entries, F(ins.a))
                argc == Len(F(ins.a).params)
            IN IF r.err # ""
               THEN Trap(entries, store, r.err) /\ last' = [ev |-> "ins_err"]
               ELSE /\ frames' = r.frames
                    /\ entries' = r.entries
                    /\ ctl' = Fetched \o
                              <<CallAct(ins.a, Len(entries) - argc,
                                        SubSeq(entries, 1, Len(entries) - argc), CurLabels,
                                        working_count(frames, entries), Len(frames)),
                                ExprAct(F(ins.a).expr)>>
                    /\ last' = [ev |-> "call"]
                    /\ UNCHANGED <<mode, ret, pages, mem, glob, invocations, trapped, cur,
                                   committed>>

\* The body's result reaches execute_block_expression (546-568)
BlockReturn ==
    /\ mode = "ret"
    /\ ctl # <<>>
    /\ Top.k = "block"
    /\ UNCHANGED <<pages, mem, glob, invocations, cur, committed, steps, budget, dec, inst>>
    /\ IF IsErr(ret)
       THEN /\ Deliver(Pop(ctl), ret)
            /\ last' = [ev |-> "unwind"]
            /\ UNCHANGED <<entries, frames>>
       ELSE IF ~ret.is_branch \/ ret.label_idx = 0
       THEN LET p == pop_n_labels(frames, entries, ret.label_cnt + 1)
                ls == CurLabels
                lab == ls[Len(ls) - ret.label_cnt]
            IN IF p.panic
               THEN /\ mode' = "panic"
                    /\ ret' = Err("pop_n_labels")
                    /\ last' = [ev |-> "panic", op |-> Top.op, branch |-> ret.is_branch]
                    /\ UNCHANGED <<entries, frames, ctl, trapped>>
               ELSE /\ frames' = p.frames
                    /\ entries' = p.entries
                    /\ last' = IF ret.is_branch
                               THEN [ev |-> "land", k |-> last.k, labs |-> last.labs,
                                     es |-> last.es, is_loop |-> Top.is_loop,
                                     passed |-> last.passed]
                               ELSE [ev |-> "fall", op |-> Top.op, bt |-> Top.bt,
                                     nlab0 |-> Top.nlab0, h0 |-> Top.h0,
                                     popped |-> ret.label_cnt + 1, runs |-> Top.runs,
                                     left |-> Len(entries) - Top.h0]
                    /\ IF ~ret.is_branch \/ ~Top.is_loop
                       THEN Deliver(Pop(ctl), no_branch)
                       ELSE /\ mode' = "restart"
                            /\ ret' = Nil
                            /\ UNCHANGED <<ctl, trapped>>
       ELSE /\ Deliver(Pop(ctl), [ret EXCEPT !.label_idx = @ - 1])
            /\ last' = [last EXCEPT !.ev = "pass", !.passed = @ + 1]
            /\ UNCHANGED <<entries, frames>>

\* a restart that runs the body again without a label of its own
LoopRestart_unlabelled ==
    /\ mode = "restart"
    /\ ctl' = Append([ctl EXCEPT ![Len(ctl)].runs = @ + 1], ExprAct(Top.src))
    /\ mode' = "exec"
    /\ last' = [ev |-> "enter"]
    /\ UNCHANGED <<entries, frames, ret, pages, mem, glob, invocations, trapped, cur, committed, steps, budget, dec, inst>>

\* A branch to a Loop goes round `loop { ... }`: a new label, the body again
LoopRestart ==
    /\ mode = "restart"
    /\ frames' = push_label(frames, entries, block_arity(Top.bt, Top.is_loop))
    /\ ctl' = Append([ctl EXCEPT ![Len(ctl)].runs = @ + 1], ExprAct(Top.src))
    /\ mode' = "exec"
    /\ last' = [ev |-> "enter"]
    /\ UNCHANGED <<entries, ret, pages, mem, glob, invocations, trapped, cur, committed, steps, budget, dec, inst>>

\* The body's result reaches WasmExprCallable::call (60-66), and the call's
\* result its caller: execute_call, or the embedder
CallReturn ==
    /\ mode = "ret"
    /\ ctl # <<>>
    /\ Top.k = "call"
    /\ LET p == pop_typed_frame(frames, entries)
           f == frames[Len(frames)]
           arity == Len(f.return_types)
           r == IF p.err # "" THEN Err(p.err) ELSE IF IsErr(ret) THEN ret ELSE no_branch
       IN /\ frames' = p.frames
          /\ entries' = p.entries
          /\ Deliver(Pop(ctl), r)
          /\ last' = [ev |-> "call_ret",
                      prev |-> last.ev,
                      k |-> IF last.ev \in {"br", "pass"} THEN last.k ELSE 0,
                      nlab |-> Len(CurLabels),
                      es |-> entries,
                      depth |-> Top.depth,
                      caller |-> Top.caller,
                      how |-> IF IsErr(ret) THEN "err" ELSE IF ret.is_branch THEN "branch" ELSE "end",
                      ok |-> ~IsErr(r),
                      f |-> Top.f,
                      base |-> Top.base,
                      below |-> Top.below,
                      labs |-> Top.labs,
                      nframes |-> Len(frames),
                      wc |-> working_count(frames, entries),
                      top |-> IF Len(entries) >= arity
                              THEN working_top(entries, arity) ELSE <<>>]
    /\ UNCHANGED <<pages, mem, glob, invocations, cur, committed, steps, budget, dec, inst>>

\* what the iterator of the running expression can yield next
Fetchable == IF mode = "exec" THEN IterNext(Top.src, Top.pc, Available) ELSE {}

Next ==
    \/ \E f \in 0..(Len(Funcs) - 1) : \E args \in Args(F(f)) : Invoke(f, args)
    \/ \E ins \in Fetchable : ExecSingle(ins)
    \/ ExprEnd
    \/ \E ins \in Fetchable : ExecBlock(ins)
    \/ \E ins \in Fetchable : ExecIf(ins)
    \/ \E ins \in Fetchable : ExecBr(ins)
    \/ \E ins \in Fetchable : ExecBrIf(ins)
    \/ \E ins \in Fetchable : ExecUnimplemented(ins)
    \/ \E ins \in Fetchable : ExecCall(ins)
    \/ BlockReturn
    \/ LoopRestart
    \/ CallReturn

Spec == Init /\ [][Next]_vars

SpecReinvoke == InitReinvoke /\ [][Next]_vars

SpecMemory == InitMemory /\ [][Next]_vars

SpecDivide == InitDivide /\ [][Next]_vars

SpecShift == InitShift /\ [][Next]_vars

\* ------------------------------------------------------ decoder actions
Interpreter == <<entries, frames, ctl, mode, ret, pages, mem, glob, invocations, trapped,
                 cur, committed, steps, budget, last>>

\* RawModule::read, up to the loop: the eight header bytes are read and compared
ReadHeader(header) ==
    /\ dec.phase = "header"
    /\ dec' = CASE header = "short" -> [dec EXCEPT !.phase = "err", !.msg = "read"]
                [] header = "bad" -> [dec EXCEPT !.phase = "err", !.msg = "Invalid module header"]
                [] header = "ok" -> [dec EXCEPT !.phase = "sections"]
    /\ UNCHANGED <<Interpreter, inst>>

\* what is kept of a section for the properties: its id, whether its content
\* used exactly the declared length (p is the outcome of process_section), and
\* whether a function body was left with bytes unread
SectionSeen(d, section_type, p) ==
    [d EXCEPT !.n = @ + 1,
              !.ids = IF section_type = CustomSection THEN @ ELSE Append(@, section_type),
              !.last = [id |-> section_type,
                        exact |-> section_type = CustomSection \/ is_at_end(p.r),
                        body_left |-> section_type = CodeSection /\ p.res = "panic"]]

\* one turn of the loop: a section header, its length and its payload
ReadSection(section_type, payload) ==
    /\ dec.phase = "sections"
    /\ dec.n < MaxSections
    /\ \E p \in {IF section_type = CustomSection THEN ROk(NewReader(payload), 0)
                ELSE process_section(dec, section_type, NewReader(payload))} :
          dec' = SectionSeen(read_section(dec, section_type, payload), section_type, p)
    /\ UNCHANGED <<Interpreter, inst>>

\* read_next_section_header finds the end of the stream
EndOfStream ==
    /\ dec.phase = "sections"
    /\ dec' = make_module(dec)
    /\ UNCHANGED <<Interpreter, inst>>

InitDecode ==
    /\ InitInstance
    /\ budget = [steps |-> 0, invocations |-> 0, alphabet |-> "control",
                 overflow_checks |-> TRUE, payload |-> MaxPayload]

\* the same decoder on streams of shorter sections
InitCustom ==
    /\ InitInstance
    /\ budget = [steps |-> 0, invocations |-> 0, alphabet |-> "control",
                 overflow_checks |-> TRUE, payload |-> MaxPayloadCustom]

NextDecode ==
    \/ \E header \in {"ok", "bad", "short"} : ReadHeader(header)
    \/ \E section_type \in SectionIds, payload \in Payloads : ReadSection(section_type, payload)
    \/ EndOfStream

SpecDecode == InitDecode /\ [][NextDecode]_vars

SpecCustom == InitCustom /\ [][NextDecode]_vars

\* ------------------------------------------- instantiation (core/module.rs)
F32Entry(v) == [ty |-> "F32", v |-> v]
F64Entry(v) == [ty |-> "F64", v |-> v]

\* Limits::Unbounded(min) and Limits::Bounded(min, max)
Unbounded(min) == [bounded |-> FALSE, min |-> min, max |-> min]
Bounded(min, max) == [bounded |-> TRUE, min |-> min, max |-> max]

\* metadata.types of the module: () -> () and (i32) -> ()
Types == <<[params |-> <<>>, results |-> <<>>], [params |-> <<"I32">>, results |-> <<>>]>>

\* a callable of a function type, a table of Option entries (0 is None, k + 1
\* is Some of function k), a memory with the pairs <<address, byte>> it holds
Callable(func_type) == [func_type |-> func_type]
Table_new(limits) == [limits |-> limits, entries |-> [k \in 1..limits.min |-> 0]]
Memory_new(limits) == [limits |-> limits, pages |-> limits.min, m |-> {}]
GlobalType(t, mutable) == [t |-> t, mutable |-> mutable]

\* Global::new: check_value_type of the initial value
Global_new(global_type, value) ==
    IF value.ty # global_type.t THEN [res |-> "err", msg |-> "Global value type mismatch"]
    ELSE [res |-> "ok", msg |-> "", g |-> Global(global_type.mutable, global_type.t, value)]

\* the function module, the data module and the exports under construction,
\* with what was observed of the run: the globals that were imported, whether
\* more than one memory or table was collected, the segments applied and the
\* calls of the start function
NewInstantiation ==
    [phase |-> "imports", n |-> 0, msg |-> "",
     functions |-> <<>>, tables |-> <<>>, memories |-> <<>>, globals |-> <<>>,
     exports |-> {}, imported_globals |-> 0, many |-> FALSE, applied |-> 0,
     start_calls |-> 0, last |-> [ev |-> "new"]]

\* the statements of resolve_raw_module, in order
PhaseNo(phase) ==
    CASE phase = "imports" -> 1 [] phase = "functions" -> 2 [] phase = "tables" -> 3
      [] phase = "memories" -> 4 [] phase = "globals" -> 5 [] phase = "exports" -> 6
      [] phase = "validated" -> 7 [] phase = "elements" -> 8 [] phase = "data" -> 9
      [] OTHER -> 10

IOk(i) == [res |-> "ok", msg |-> "", i |-> i]
IFail(res, msg, i) == [res |-> res, msg |-> msg, i |-> i]

\* a get_global_value that answers for a global that is not there yet
get_global_value_any(globals, idx) ==
    IF idx < Len(globals) THEN [ok |-> TRUE, v |-> globals[idx + 1].value]
    ELSE [ok |-> TRUE, v |-> I32Entry(0)]

\* ConstantDataStore for DataModule: get_global_value
get_global_value(globals, idx) ==
    IF idx < Len(globals) THEN [ok |-> TRUE, v |-> globals[idx + 1].value]
    ELSE [ok |-> FALSE, v |-> I32Entry(0)]

\* execute_single_constant_instruction on the entries es of the stack
execute_single_constant_instruction(ins, es, globals) ==
    CASE ins.op = "I32Const" -> [ok |-> TRUE, es |-> Append(es, I32Entry(ins.a))]
      [] ins.op = "I64Const" -> [ok |-> TRUE, es |-> Append(es, I64Entry(ins.a))]
      [] ins.op = "F32Const" -> [ok |-> TRUE, es |-> Append(es, F32Entry(ins.a))]
      [] ins.op = "F64Const" -> [ok |-> TRUE, es |-> Append(es, F64Entry(ins.a))]
      [] ins.op = "GlobalGet" ->
            Only({IF g.ok THEN [ok |-> TRUE, es |-> Append(es, g.v)]
                  ELSE [ok |-> FALSE, es |-> es]
                  : g \in {get_global_value(globals, ins.a)}})
      [] OTHER -> [ok |-> FALSE, es |-> es]

RECURSIVE execute_constant_expression(_, _, _, _)
\* execute_constant_expression, from instruction k of expr on
execute_constant_expression(expr, k, es, globals) ==
    IF k > Len(expr) THEN [ok |-> TRUE, es |-> es]
    ELSE Only({IF ~r.ok THEN r ELSE execute_constant_expression(expr, k + 1, r.es, globals)
               : r \in {execute_single_constant_instruction(expr[k], es, globals)}})

\* the rest of evaluate_constant_expression, after the expression ran
constant_results(r, arity) ==
    IF ~r.ok THEN [ok |-> FALSE, results |-> <<>>]
    ELSE IF Len(r.es) < arity THEN [ok |-> FALSE, results |-> <<>>]
    ELSE [ok |-> TRUE, results |-> SubSeq(r.es, Len(r.es) - arity + 1, Len(r.es))]

\* evaluate_constant_expression on a new stack
evaluate_constant_expression(expr, globals, arity) ==
    Only({constant_results(r, arity) : r \in {execute_constant_expression(expr, 1, <<>>, globals)}})

\* the rest of DataModule::evaluate_offset_expression, after the evaluation
offset_of(result) ==
    IF ~result.ok THEN [ok |-> FALSE, offset |-> 0]
    ELSE IF result.results[1].ty = "I32" THEN [ok |-> TRUE, offset |-> result.results[1].v]
    ELSE [ok |-> FALSE, offset |-> 0]

\* DataModule::evaluate_offset_expression
evaluate_offset_expression(i, expr) ==
    Only({offset_of(result) : result \in {evaluate_constant_expression(expr, i.globals, 1)}})

is_data_import(import) == import.kind \in {"mem", "global"}
is_data_export(d) == d.kind \in {"Mem", "Global"}

\* DataModule::resolve_import: what the resolver gives is pushed as it is
data_resolve_import(i, import, resolved) ==
    IF ~resolved.ok THEN IFail("err", "not found", i)
    ELSE IF import.kind = "mem" THEN IOk([i EXCEPT !.memories = Append(@, resolved.entity)])
    ELSE IOk([i EXCEPT !.globals = Append(@, resolved.entity)])

\* FunctionModule::resolve_import
function_resolve_import(i, import, resolved) ==
    IF import.kind = "func" /\ import.desc >= Len(Types)
    THEN IFail("err", "has invalid type index", i)
    ELSE IF ~resolved.ok THEN IFail("err", "not found", i)
    ELSE IF import.kind = "func" THEN IOk([i EXCEPT !.functions = Append(@, resolved.entity)])
    ELSE IOk([i EXCEPT !.tables = Append(@, resolved.entity)])

\* the body of the loop of resolve_imports
resolve_import(i, import, resolved) ==
    IF is_data_import(import) THEN data_resolve_import(i, import, resolved)
    ELSE function_resolve_import(i, import, resolved)

\* the body of the loop of FunctionModule::add_functions
add_function(i, type_idx) ==
    IF type_idx >= Len(Types) THEN IFail("err", "Function has invalid type index", i)
    ELSE IOk([i EXCEPT !.functions = Append(@, Callable(Types[type_idx + 1]))])

\* the bodies of the loops of add_tables and add_memories
add_table(i, table_type) == IOk([i EXCEPT !.tables = Append(@, Table_new(table_type))])
add_memory(i, mem_type) == IOk([i EXCEPT !.memories = Append(@, Memory_new(mem_type))])

\* the body of the loop of DataModule::add_globals, after the initializer was
\* evaluated to results
global_of(i, global_type, results) ==
    IF ~results.ok THEN IFail("err", "constant expression", i)
    ELSE Only({IF g.res # "ok" THEN IFail("err", g.msg, i)
               ELSE IOk([i EXCEPT !.globals = Append(@, g.g)])
               : g \in {Global_new(global_type, results.results[1])}})

\* the body of the loop of DataModule::add_globals
add_global(i, global) ==
    Only({global_of(i, global.gt, results)
          : results \in {evaluate_constant_expression(global.e, i.globals, 1)}})

\* DataModule::collect_export and FunctionModule::collect_export: the export
\* value is the entity at the index
collect_export(i, d) ==
    CASE d.kind = "Mem" -> d.idx < Len(i.memories)
      [] d.kind = "Global" -> d.idx < Len(i.globals)
      [] d.kind = "Func" -> d.idx < Len(i.functions)
      [] d.kind = "Table" -> d.idx < Len(i.tables)

\* HashMap::insert on the exports, kept as the set of their entries
insert(exports, nm, v) == {e \in exports : e.nm # nm} \cup {[nm |-> nm, v |-> v]}

\* the body of the loop of collect_exports
collect_one_export(i, export) ==
    IF collect_export(i, export.d) THEN IOk([i EXCEPT !.exports = insert(@, export.nm, export.d)])
    ELSE IFail("err", "Exported index out of range", i)

\* a DataModule::pre_execute_validate that lets any number of memories pass
data_pre_execute_validate_any(i) == IOk(i)

\* DataModule::pre_execute_validate
data_pre_execute_validate(i) ==
    IF Len(i.memories) > 1 THEN IFail("err", "Too many memories", i) ELSE IOk(i)

\* FunctionModule::pre_execute_validate
function_pre_execute_validate(i) ==
    IF Len(i.tables) > 1 THEN IFail("err", "Too many tables", i) ELSE IOk(i)

\* the two validations of resolve_raw_module, the data module first
pre_execute_validate(i) ==
    Only({IF d.res # "ok" THEN d ELSE function_pre_execute_validate(i)
          : d \in {data_pre_execute_validate(i)}})

\* Table::set_entries: entry offset + idx is indexed for each function in turn,
\* and an index past the end of the entries panics (offset < 0 stands for an
\* offset of 2^31 or more)
set_entries(table, offset, functions) ==
    [res |-> IF functions = <<>> \/ (offset >= 0 /\ offset + Len(functions) <= Len(table.entries))
             THEN "ok" ELSE "panic",
     table |-> [table EXCEPT !.entries =
                   [k \in 1..Len(table.entries) |->
                       IF offset >= 0 /\ k - 1 >= offset /\ k - 1 < offset + Len(functions)
                       THEN functions[k - offset] + 1 ELSE table.entries[k]]]]

\* FunctionModule::initialize_table_element, after the offset was evaluated
table_element_at(i, element, o) ==
    IF ~o.ok THEN IFail("err", "offset expression", i)
    ELSE IF \E k \in 1..Len(element.y) : element.y[k] >= Len(i.functions)
    THEN IFail("err", "Function index out of range", i)
    ELSE Only({IF s.res # "ok" THEN IFail(s.res, "index out of bounds", i)
               ELSE IOk([i EXCEPT !.tables[element.x + 1] = s.table])
               : s \in {set_entries(i.tables[element.x + 1], o.offset, element.y)}})

\* FunctionModule::initialize_table_element
initialize_table_element(i, element) ==
    IF element.x >= Len(i.tables)
    THEN IFail("err", "Table initializer table idx out of range", i)
    ELSE Only({table_element_at(i, element, o) : o \in {evaluate_offset_expression(i, element.e)}})

\* DataModule::initialize_memory_data, after the offset was evaluated
memory_data_at(i, data, o) ==
    IF ~o.ok THEN IFail("err", "offset expression", i)
    ELSE Only({IF ~s.ok THEN IFail("err", "Attempting to access outside allocated memory", i)
               ELSE IOk([i EXCEPT !.memories[data.x + 1].m = s.mem])
               : s \in {set_data(i.memories[data.x + 1].pages, i.memories[data.x + 1].m,
                                 o.offset, data.b)}})

\* DataModule::initialize_memory_data
initialize_memory_data(i, data) ==
    IF data.x >= Len(i.memories)
    THEN IFail("err", "Memory initializer mem idx out of range", i)
    ELSE Only({memory_data_at(i, data, o) : o \in {evaluate_offset_expression(i, data.e)}})

\* WasmExprCallable::call on the stack <<fs, es>>: the frame is pushed, and
\* the expression and pop_typed_frame end in outcome
call(callable, fs, es, outcome) ==
    IF push_typed_frame(fs, es, [params |-> callable.func_type.params, locals |-> <<>>,
                                 results |-> callable.func_type.results]).err # ""
    THEN "err"
    ELSE outcome

\* FunctionStore for FunctionModule: execute_function on a stack
execute_function(i, idx, fs, es, outcome) ==
    IF idx < Len(i.functions)
    THEN [res |-> call(i.functions[idx + 1], fs, es, outcome), called |-> 1]
    ELSE [res |-> "err", called |-> 0]

\* the end of resolve_raw_module, had it gone on after a start function that failed
run_start_unchecked(i, start, outcome) ==
    IF ~start.declared THEN IOk(i)
    ELSE Only({IF r.res = "panic" THEN IFail(r.res, "start", [i EXCEPT !.start_calls = @ + r.called])
               ELSE IOk([i EXCEPT !.start_calls = @ + r.called])
               : r \in {execute_function(i, start.idx, <<>>, <<>>, outcome)}})

\* the end of resolve_raw_module: the start function, if there is one, is
\* executed on a new stack
run_start(i, start, outcome) ==
    IF ~start.declared THEN IOk(i)
    ELSE Only({IF r.res # "ok" THEN IFail(r.res, "start", [i EXCEPT !.start_calls = @ + r.called])
               ELSE IOk([i EXCEPT !.start_calls = @ + r.called])
               : r \in {execute_function(i, start.idx, <<>>, <<>>, outcome)}})

\* --------------------------------------------------- instantiation actions
\* the limits an import declares, and what a resolver may hold under the name
DeclaredLimits == Bounded(1, 2)
ResolvedLimits == {Bounded(1, 2), Bounded(0, 2), Bounded(1, 3)}

Imports ==
    {[kind |-> "func", desc |-> t] : t \in {0, 2}}
    \cup {[kind |-> "table", desc |-> DeclaredLimits], [kind |-> "mem", desc |-> DeclaredLimits]}
    \cup {[kind |-> "global", desc |-> GlobalType("I32", mutable)] : mutable \in BOOLEAN}

NotFound == [ok |-> FALSE]
Found(entity) == [ok |-> TRUE, entity |-> entity]

\* the answers of a resolver: it is the embedder's, and nothing in the trait
\* ties the entity it returns to the type it is asked for
Resolutions(import) ==
    {NotFound} \cup
    CASE import.kind = "func" -> {Found(Callable(Types[t])) : t \in 1..Len(Types)}
      [] import.kind = "table" -> {Found(Table_new(l)) : l \in ResolvedLimits}
      [] import.kind = "mem" -> {Found(Memory_new(l)) : l \in ResolvedLimits}
      [] import.kind = "global" ->
            {Found(Global(FALSE, "I32", I32Entry(0))), Found(Global(TRUE, "I32", I32Entry(0))),
             Found(Global(FALSE, "I64", I64Entry(0)))}

\* the entity is of the type the import declares
Matches(import, entity) ==
    CASE import.kind = "func" ->
            import.desc < Len(Types) /\ entity.func_type = Types[import.desc + 1]
      [] import.kind \in {"table", "mem"} ->
            entity.limits.min >= import.desc.min /\ entity.limits.max <= import.desc.max
      [] import.kind = "global" ->
            entity.ty = import.desc.t /\ entity.mutable = import.desc.mutable

TypeIndices == 0..Len(Types)
TableTypes == {Unbounded(0), Bounded(2, 2)}
MemTypes == {Unbounded(0), Bounded(1, 2)}

ConstExprs ==
    {<<>>, <<Ins("I32Const", 1)>>, <<Ins("I64Const", 1)>>, <<Ins("F32Const", 0)>>,
     <<Ins("F64Const", 0)>>, <<Ins("GlobalGet", 0)>>, <<Ins("GlobalGet", 1)>>,
     <<Ins("I32Const", 1), Ins("Drop", 0)>>}

GlobalDefs ==
    {[gt |-> gt, e |-> e] : gt \in {GlobalType("I32", FALSE), GlobalType("I64", TRUE)},
                            e \in ConstExprs}

ExportDefs ==
    {[nm |-> nm, d |-> [kind |-> kind, idx |-> 0]]
        : nm \in {"a", "b"}, kind \in {"Func", "Table", "Mem", "Global"}}

Elements ==
    {[x |-> x, e |-> e, y |-> y]
        : x \in {0, 1},
          e \in {<<Ins("I32Const", 0)>>, <<Ins("I32Const", 1)>>, <<Ins("I64Const", 0)>>},
          y \in {<<>>, <<0>>, <<0, 1>>}}

DataSegments ==
    {[x |-> x, e |-> e, b |-> b]
        : x \in {0, 1},
          e \in {<<Ins("I32Const", 0)>>, <<Ins("I32Const", WASM_PAGE_SIZE_IN_BYTES - 1)>>,
                 <<Ins("I64Const", 0)>>},
          b \in {<<>>, <<7>>, <<7, 7>>}}

Starts == {[declared |-> FALSE, idx |-> 0]} \cup {[declared |-> TRUE, idx |-> k] : k \in {0, 1}}

\* how the body of a function that is called may end: Ok, Err (a trap) or a panic
Outcomes == {"ok", "err", "panic"}

\* resolve_raw_module is at a statement up to the p-th and may run the p-th
Reached(p) == inst.phase \notin {"none", "ok", "err", "panic"} /\ PhaseNo(inst.phase) <= p

\* the iterators of the module hold another item
MoreItems == inst.n < budget.items

\* the state after a statement with result r: on Err (the `?`) and on a panic
\* the modules under construction are dropped
After(r, phase, ev) ==
    IF r.res = "ok"
    THEN [r.i EXCEPT !.phase = phase, !.last = ev,
                     !.many = @ \/ Len(r.i.memories) > 1 \/ Len(r.i.tables) > 1]
    ELSE [r.i EXCEPT !.phase = r.res, !.msg = r.msg, !.last = ev,
                     !.functions = <<>>, !.tables = <<>>, !.memories = <<>>,
                     !.globals = <<>>, !.exports = {}]

Item(i) == [i EXCEPT !.n = @ + 1]

\* resolve_imports: the next import and the answer of the resolver
ResolveImport(import, resolved) ==
    /\ Reached(1) /\ MoreItems
    /\ \E r \in {resolve_import(Item(inst), import, resolved)} :
          inst' = After([r EXCEPT !.i.imported_globals = Len(r.i.globals)], "imports",
                        [ev |-> "import", supplied |-> resolved.ok,
                         matches |-> resolved.ok /\ Matches(import, resolved.entity)])
    /\ UNCHANGED <<Interpreter, dec>>

\* add_functions: the next pair of typeidx and funcs
AddFunction(type_idx) ==
    /\ Reached(2) /\ MoreItems
    /\ inst' = After(add_function(Item(inst), type_idx), "functions", [ev |-> "function"])
    /\ UNCHANGED <<Interpreter, dec>>

AddTable(table_type) ==
    /\ Reached(3) /\ MoreItems
    /\ inst' = After(add_table(Item(inst), table_type), "tables", [ev |-> "table"])
    /\ UNCHANGED <<Interpreter, dec>>

AddMemory(mem_type) ==
    /\ Reached(4) /\ MoreItems
    /\ inst' = After(add_memory(Item(inst), mem_type), "memories", [ev |-> "memory"])
    /\ UNCHANGED <<Interpreter, dec>>

\* the indices of the global.get instructions of an expression
GlobalRefs(expr) == {expr[k].a : k \in {j \in 1..Len(expr) : expr[j].op = "GlobalGet"}}

\* the global at idx is an imported global that is const
ImportedConst(i, idx) == idx < i.imported_globals /\ ~i.globals[idx + 1].mutable

\* add_globals: the next global and its initializer
AddGlobal(global) ==
    /\ Reached(5) /\ MoreItems
    /\ inst' = After(add_global(Item(inst), global), "globals",
                     [ev |-> "global", index |-> Len(inst.globals),
                      refs |-> GlobalRefs(global.e),
                      foreign |-> \E idx \in GlobalRefs(global.e) : ~ImportedConst(inst, idx)])
    /\ UNCHANGED <<Interpreter, dec>>

\* collect_exports: the next export
CollectExport(export) ==
    /\ Reached(6) /\ MoreItems
    /\ inst' = After(collect_one_export(Item(inst), export), "exports",
                     [ev |-> "export", duplicate |-> \E e \in inst.exports : e.nm = export.nm])
    /\ UNCHANGED <<Interpreter, dec>>

\* add_func_types and the two pre_execute_validate
Validate ==
    /\ Reached(6)
    /\ inst' = After(pre_execute_validate(inst), "validated", [ev |-> "validate"])
    /\ UNCHANGED <<Interpreter, dec>>

\* the table of the element exists, its offset and its functions are valid,
\* and its last slot is past the entries of the table
ElementBeyond(i, element) ==
    /\ element.x < Len(i.tables)
    /\ \A k \in 1..Len(element.y) : element.y[k] < Len(i.functions)
    /\ element.y # <<>>
    /\ \E o \in {evaluate_offset_expression(i, element.e)} :
          o.ok /\ (o.offset < 0 \/ o.offset + Len(element.y) > Len(i.tables[element.x + 1].entries))

\* initialize_table_elements: the next element segment
InitializeTableElement(element) ==
    /\ inst.phase \in {"validated", "elements"} /\ MoreItems
    /\ inst' = After(initialize_table_element([Item(inst) EXCEPT !.applied = @ + 1], element),
                     "elements", [ev |-> "elem", beyond |-> ElementBeyond(inst, element)])
    /\ UNCHANGED <<Interpreter, dec>>

\* the memory of the segment exists, its offset is valid, and its last byte
\* is past the pages of the memory
DataBeyond(i, data) ==
    /\ data.x < Len(i.memories)
    /\ data.b # <<>>
    /\ \E o \in {evaluate_offset_expression(i, data.e)} :
          o.ok /\ ~check_bounds(i.memories[data.x + 1].pages, o.offset, Len(data.b))

\* initialize_memory: the next data segment
InitializeMemoryData(data) ==
    /\ inst.phase \in {"validated", "elements", "data"} /\ MoreItems
    /\ inst' = After(initialize_memory_data([Item(inst) EXCEPT !.applied = @ + 1], data),
                     "data", [ev |-> "data", beyond |-> DataBeyond(inst, data)])
    /\ UNCHANGED <<Interpreter, dec>>

\* the start function and the return of resolve_raw_module
Finish(start, outcome) ==
    /\ inst.phase \in {"validated", "elements", "data"}
    /\ inst' = After(run_start(inst, start, outcome), "ok",
                     [ev |-> "start", declared |-> start.declared, outcome |-> outcome])
    /\ UNCHANGED <<Interpreter, dec>>

InitInstantiate ==
    /\ InitInterpreter
    /\ dec = NewDecoder
    /\ inst = NewInstantiation
    /\ budget = [steps |-> 0, invocations |-> 0, alphabet |-> "control",
                 overflow_checks |-> TRUE, items |-> MaxItems]

NextInstantiate ==
    \/ \E import \in Imports : \E resolved \in Resolutions(import) : ResolveImport(import, resolved)
    \/ \E type_idx \in TypeIndices : AddFunction(type_idx)
    \/ \E table_type \in TableTypes : AddTable(table_type)
    \/ \E mem_type \in MemTypes : AddMemory(mem_type)
    \/ \E global \in GlobalDefs : AddGlobal(global)
    \/ \E export \in ExportDefs : CollectExport(export)
    \/ Validate
    \/ \E element \in Elements : InitializeTableElement(element)
    \/ \E data \in DataSegments : InitializeMemoryData(data)
    \/ \E start \in Starts, outcome \in Outcomes : Finish(start, outcome)

SpecInstantiate == InitInstantiate /\ [][NextInstantiate]_vars

\* ------------------------------------------------- LEB128 decoding alone
\* 0x01, 0x7f, 0x80 and 0xff: with and without the continuation bit
LebBytes == {1, 127, 128, 255}

LebInputs == UNION {[1..n -> LebBytes] : n \in 1..MaxLebLen}

NotYet == [res |-> "none"]

\* the bytes of a number, before any decoder ran on them
NewLeb(bytes) ==
    [phase |-> "leb", bytes |-> bytes, read |-> NotYet, ensure |-> NotYet, get |-> NotYet]

\* a reader over the bytes decodes the number (a count, an index, a length)
ReadLeb ==
    /\ dec.phase = "leb"
    /\ dec.read = NotYet
    /\ dec' = [dec EXCEPT !.read = read_leb_u32(NewReader(dec.bytes))]
    /\ UNCHANGED <<Interpreter, inst>>

\* the bytes are the operand of an instruction: decoding the expression
\* measures it with ensure_leb_at
EnsureOperand ==
    /\ dec.phase = "leb"
    /\ dec.ensure = NotYet
    /\ dec' = [dec EXCEPT !.ensure = ensure_leb_at(dec.bytes, 0)]
    /\ UNCHANGED <<Interpreter, inst>>

\* the instruction that was accepted gives its operand (get_single_u32_arg)
GetOperand ==
    /\ dec.phase = "leb"
    /\ dec.ensure.res = "ok"
    /\ dec.get = NotYet
    /\ dec' = [dec EXCEPT !.get = get_leb_u32_at(dec.bytes, 0)]
    /\ UNCHANGED <<Interpreter, inst>>

InitLeb ==
    /\ InitInterpreter
    /\ \E oc \in BOOLEAN :
          budget = [steps |-> 0, invocations |-> 0, alphabet |-> "control",
                    overflow_checks |-> oc]
    /\ \E bytes \in LebInputs : dec = NewLeb(bytes)
    /\ inst = NotInstantiating

NextLeb == ReadLeb \/ EnsureOperand \/ GetOperand

SpecLeb == InitLeb /\ [][NextLeb]_vars

\* -------------------------------------------- a global on its own (global.rs)
\* the stack entries a caller can hand to a global: one of each variant
SetValues ==
    {[ty |-> t, v |-> v] : t \in {"I32", "I64", "F32", "F64"}, v \in {0, 1}}
        \cup {[ty |-> "Unused", v |-> 0]}

\* a global made by Global::new, with the type it was declared with and the
\* value it was created with
InitGlobal ==
    /\ InitInterpreter
    /\ budget = [steps |-> 0, invocations |-> 0, alphabet |-> "control",
                 overflow_checks |-> FALSE]
    /\ dec = NewDecoder
    /\ \E t \in {"I32", "I64", "F32", "F64"}, mutable \in BOOLEAN, value \in SetValues :
          LET r == Global_new(GlobalType(t, mutable), value)
          IN /\ r.res = "ok"
             /\ inst = [phase |-> "global", global |-> r.g,
                        declared |-> GlobalType(t, mutable), initial |-> value,
                        sets |-> 0, last |-> [ev |-> "new"]]

\* one call of Global::set_value
SetValue ==
    /\ inst.phase = "global"
    /\ inst.sets < MaxSets
    /\ \E value \in SetValues :
          LET r == set_value(inst.global, value)
          IN inst' = [inst EXCEPT !.global = r.g, !.sets = @ + 1,
                                  !.last = [ev |-> "set", value |-> value, ok |-> r.ok,
                                            before |-> inst.global.value]]
    /\ UNCHANGED <<Interpreter, dec>>

NextGlobal == SetValue

SpecGlobal == InitGlobal /\ [][NextGlobal]_vars

\* ----------------------------------------------- a stack on its own (stack.rs)
\* the function types and locals frames are pushed for, and the values pushed
FrameFuncs ==
    { [params |-> <<>>, locals |-> <<"I32">>, results |-> <<>>],
      [params |-> <<"I32">>, locals |-> <<>>, results |-> <<"I64">>],
      [params |-> <<"I64", "I32">>, locals |-> <<"I64">>, results |-> <<"I32", "I64">>] }

FrameValues == {I32Entry(1), I64Entry(2)}

InitStack ==
    /\ InitInstance
    /\ budget = [steps |-> MaxStackOps, invocations |-> 0, alphabet |-> "control",
                 overflow_checks |-> TRUE]

StackOp == steps < budget.steps /\ mode = "idle"

StackIdle == <<ctl, mode, ret, pages, mem, glob, invocations, trapped, cur, committed,
               budget, dec, inst>>

\* Stack::push
StackPush ==
    /\ StackOp
    /\ \E value \in FrameValues :
          /\ entries' = Append(entries, value)
          /\ last' = [ev |-> "push", value |-> value]
    /\ steps' = steps + 1
    /\ UNCHANGED <<frames, StackIdle>>

\* Stack::push_label on the current frame
StackPushLabel ==
    /\ StackOp
    /\ frames # <<>>
    /\ \E arity \in {0, 1} :
          /\ frames' = push_label(frames, entries, arity)
          /\ last' = [ev |-> "push_label", arity |-> arity]
    /\ steps' = steps + 1
    /\ UNCHANGED <<entries, StackIdle>>

\* one call of Stack::push_typed_frame
PushTypedFrame ==
    /\ StackOp
    /\ \E func \in FrameFuncs :
          LET r == push_typed_frame(frames, entries, func)
          IN /\ frames' = r.frames
             /\ entries' = r.entries
             /\ last' = [ev |-> "push_frame", err |-> r.err, func |-> func,
                         frames0 |-> frames, entries0 |-> entries]
    /\ steps' = steps + 1
    /\ UNCHANGED StackIdle

\* one call of Stack::pop_typed_frame; frames.last().unwrap() needs a frame
PopTypedFrame ==
    /\ StackOp
    /\ frames # <<>>
    /\ LET r == pop_typed_frame(frames, entries)
       IN /\ frames' = r.frames
          /\ entries' = r.entries
          /\ last' = [ev |-> "pop_frame", err |-> r.err, frames0 |-> frames,
                      entries0 |-> entries]
    /\ steps' = steps + 1
    /\ UNCHANGED StackIdle

NextStack == StackPush \/ StackPushLabel \/ PushTypedFrame \/ PopTypedFrame

SpecStack == InitStack /\ [][NextStack]_vars

\* ------------------------- expressions run on a test frame (executor/test)
\* ExpressionWriter::write_branch_table: the opcode, the length of the table
\* without its last entry, then every entry (each below 128, one byte)
write_branch_table(table) == <<14, Len(table) - 1>> \o table

write_local_value(local_index, const) == <<const, Ins("LocalSet", local_index)>>

modify_local_value(local_index, const, op) ==
    <<Ins("LocalGet", local_index), const, Ins(op, 0), Ins("LocalSet", local_index)>>

compare_local_value(local_index, const, op) ==
    <<Ins("LocalGet", local_index), const, Ins(op, 0)>>

RECURSIVE write_branch_tier(_, _)
\* a Block holding the next tier and an increment of local 0, or, in the
\* leaf, a branch table over 0..max_depth-1 indexed by local 1
write_branch_tier(depth, max_depth) ==
    BlockIns("Block", "None",
             CodeSrc(IF depth > 0
                     THEN <<write_branch_tier(depth - 1, max_depth)>>
                          \o modify_local_value(0, Ins("I32Const", 1), "I32Add")
                     ELSE <<Ins("LocalGet", 1),
                            BrTableIns(write_branch_table([i \in 1..max_depth |-> i - 1]))>>),
             FALSE, NoSrc)

\* test_branch_table for one MAX_DEPTH and one jump_target
branch_table_program(max_depth, jump_target) ==
    [test |-> "branch_table", depth |-> max_depth, input |-> jump_target, frame |-> TRUE,
     locals |-> 2,
     expr |-> CodeSrc(write_local_value(0, Ins("I32Const", 0))
                      \o write_local_value(1, Ins("I32Const", jump_target))
                      \o <<write_branch_tier(max_depth, max_depth), Ins("LocalGet", 0)>>)]

\* test_loop_block counting down from n
loop_program(n) ==
    [test |-> "loop", depth |-> 0, input |-> n, frame |-> TRUE, locals |-> 1,
     expr |-> CodeSrc(write_local_value(0, Ins("I64Const", n))
                      \o <<BlockIns("Loop", "None",
                                    CodeSrc(modify_local_value(0, Ins("I64Const", 1), "I64Sub")
                                            \o compare_local_value(0, Ins("I64Const", 0), "I64Ne")
                                            \o <<Ins("BrIf", 0)>>),
                                    FALSE, NoSrc),
                           Ins("LocalGet", 0)>>)]

\* test_select_op: two values and a selector pushed on a Stack without a
\* frame, then Select
select_program(a, b, selector) ==
    [test |-> "select", depth |-> 0, input |-> 0, frame |-> FALSE, locals |-> 0,
     expr |-> CodeSrc(<<a, b, selector, Ins("Select", 0)>>)]

SelectValues == {Ins("I32Const", 42), Ins("I32Const", 69), Ins("I64Const", 42)}

SelectSelectors == {Ins("I32Const", 0), Ins("I32Const", 1), Ins("I32Const", NEG1),
                    Ins("I64Const", 1)}

\* jump targets inside the table, past its end, and 2^32 - 1
TestPrograms ==
    {branch_table_program(d, j) : d \in 1..MaxDepth, j \in 0..(MaxDepth + 1) \cup {NEG1}}
        \cup {loop_program(n) : n \in 1..MaxCount}
        \cup {select_program(a, b, c) : a \in SelectValues, b \in SelectValues,
                                        c \in SelectSelectors}

\* Stack::push_test_frame: no arguments, local_count locals of type I32
push_test_frame(fs, es, local_count) ==
    push_typed_frame(fs, es, [params |-> <<>>, locals |-> [i \in 1..local_count |-> "I32"],
                              results |-> <<>>])

InitTests ==
    /\ InitInterpreter
    /\ budget = [steps |-> 0, invocations |-> 1, alphabet |-> "test",
                 overflow_checks |-> TRUE]
    /\ dec = NewDecoder
    /\ \E program \in TestPrograms : inst = [phase |-> "test", program |-> program]

\* the test pushes its frame on a new Stack and calls execute_expression
RunExpression ==
    /\ mode = "idle"
    /\ inst.phase = "test"
    /\ invocations < budget.invocations
    /\ IF ~inst.program.frame
       THEN UNCHANGED <<frames, entries>>
       ELSE LET r == push_test_frame(frames, entries, inst.program.locals)
            IN /\ r.err = ""
               /\ frames' = r.frames
               /\ entries' = r.entries
    /\ ctl' = <<ExprAct(inst.program.expr)>>
    /\ mode' = "exec"
    /\ ret' = Nil
    /\ invocations' = invocations + 1
    /\ committed' = store
    /\ last' = [ev |-> "invoke"]
    /\ UNCHANGED <<pages, mem, glob, trapped, cur, steps, budget, dec, inst>>

\* execute_expression: an Err is handed on by `?`, anything else is Ok(())
ExpressionReturn ==
    /\ mode = "ret"
    /\ ctl = <<>>
    /\ Deliver(<<>>, IF IsErr(ret) THEN ret ELSE no_branch)
    /\ last' = [ev |-> "returned", prev |-> last]
    /\ UNCHANGED <<entries, frames, pages, mem, glob, invocations, cur, committed, steps,
                   budget, dec, inst>>

NextTests ==
    \/ RunExpression
    \/ \E ins \in Fetchable : ExecSingle(ins)
    \/ ExprEnd
    \/ \E ins \in Fetchable : ExecBlock(ins)
    \/ \E ins \in Fetchable : ExecBrIf(ins)
    \/ \E ins \in Fetchable : ExecBrTable(ins)
    \/ BlockReturn
    \/ LoopRestart
    \/ ExpressionReturn

SpecTests == InitTests /\ [][NextTests]_vars

\* the interpreter runs on until execute_expression has returned
SpecTestsFair == SpecTests /\ WF_vars(NextTests)

\* ------------------------------------------- a memory on its own (memory.rs)
\* a grow_by that does not look at the declared maximum
Memory_grow_by_unchecked(memory, n) ==
    IF n < 0 THEN [res |-> "err", memory |-> memory]
    ELSE [res |-> "ok", memory |-> [memory EXCEPT !.pages = @ + n]]

\* Memory::grow_by for a usize n; NEG1 stands for usize::MAX, for which
\* checked_add overflows unless the memory is empty, and which no declared
\* maximum admits; an empty memory without a maximum then has to allocate
\* usize::MAX pages, which aborts
Memory_grow_by(memory, n) ==
    IF n < 0
    THEN IF memory.pages = 0 /\ ~memory.limits.bounded
         THEN [res |-> "abort", memory |-> memory]
         ELSE [res |-> "err", memory |-> memory]
    ELSE LET new_size == memory.pages + n
             max_size == IF memory.limits.bounded THEN memory.limits.max ELSE new_size
         IN IF new_size <= max_size
            THEN [res |-> "ok", memory |-> [memory EXCEPT !.pages = new_size]]
            ELSE [res |-> "err", memory |-> memory]

\* the limits a memory is declared with: a minimum, and no maximum or a
\* maximum that is not below the minimum
GrowLimits ==
    {Unbounded(min) : min \in 0..MaxDeclaredPages}
        \cup {Bounded(min, max) : min \in 0..MaxDeclaredPages, max \in 0..MaxDeclaredPages}

InitGrow ==
    /\ InitInterpreter
    /\ budget = [steps |-> 0, invocations |-> 0, alphabet |-> "control",
                 overflow_checks |-> TRUE]
    /\ dec = NewDecoder
    /\ \E limits \in GrowLimits :
          /\ limits.min <= limits.max
          /\ inst = [phase |-> "memory", memory |-> Memory_new(limits), grows |-> 0,
                     last |-> [ev |-> "new"]]

\* one call of Memory::grow_by
GrowBy ==
    /\ inst.phase = "memory"
    /\ inst.grows < MaxGrows
    /\ \E n \in {0, 1, 2, NEG1} :
          LET r == Memory_grow_by(inst.memory, n)
          IN inst' = [inst EXCEPT !.phase = IF r.res = "abort" THEN "abort" ELSE @,
                                  !.memory = r.memory, !.grows = @ + 1,
                                  !.last = [ev |-> "grow", n |-> n, res |-> r.res,
                                            before |-> inst.memory.pages]]
    /\ UNCHANGED <<Interpreter, dec>>

NextGrow == GrowBy

SpecGrow == InitGrow /\ [][NextGrow]_vars

\* --------------------------- a scoped reader on its own (scoped_reader.rs)
\* ScopedReader::new over a source that still has `left` bytes to give and
\* has given `taken` bytes to this reader
Scoped_new(size, left) ==
    [offset |-> 0, size |-> size, src |-> [taken |-> 0, left |-> left]]

\* ScopedReader::is_at_end
Scoped_is_at_end(r) == r.offset = r.size

\* a limit that hands the whole buffer to the source
bytes_to_read_unlimited(r, buf_len) == buf_len

\* the limit of ScopedReader::read on the size of the read
bytes_to_read(r, buf_len) ==
    IF buf_len > r.size - r.offset THEN r.size - r.offset ELSE buf_len

\* what io::Read::read of the source may answer for a buffer of k > 0 bytes:
\* an error that takes nothing, or a number of bytes up to k that it has,
\* none when it has none left
SourceAnswers(src, k) ==
    {-1} \cup (IF src.left = 0 THEN {0} ELSE 1..Min(k, src.left))

\* ScopedReader::read into a buffer of buf_len bytes, the source answering
\* `answer` if it is asked
Scoped_read(r, buf_len, answer) ==
    IF bytes_to_read(r, buf_len) > 0
    THEN IF answer < 0 THEN [res |-> "err", n |-> 0, r |-> r]
         ELSE [res |-> "ok", n |-> answer,
               r |-> [r EXCEPT !.offset = @ + answer,
                               !.src = [taken |-> @.taken + answer, left |-> @.left - answer]]]
    ELSE [res |-> "ok", n |-> 0, r |-> r]

InitScoped ==
    /\ InitInterpreter
    /\ budget = [steps |-> 0, invocations |-> 0, alphabet |-> "control",
                 overflow_checks |-> TRUE]
    /\ dec = NewDecoder
    /\ \E size \in 0..MaxScope, left \in 0..(MaxScope + 1) :
          inst = [phase |-> "reader", reader |-> Scoped_new(size, left), reads |-> 0,
                  last |-> [ev |-> "new"]]

\* one call of ScopedReader::read
ScopedRead ==
    /\ inst.phase = "reader"
    /\ inst.reads < MaxReads
    /\ \E buf_len \in 0..(MaxScope + 1) :
          \E answer \in SourceAnswers(inst.reader.src,
                                      Min(buf_len, bytes_to_read(inst.reader, buf_len))) :
             LET r == Scoped_read(inst.reader, buf_len, answer)
             IN inst' = [inst EXCEPT !.reader = r.r, !.reads = @ + 1,
                                     !.last = [ev |-> "read", buf_len |-> buf_len,
                                               res |-> r.res, n |-> r.n,
                                               before |-> inst.reader]]
    /\ UNCHANGED <<Interpreter, dec>>

NextScoped == ScopedRead

SpecScoped == InitScoped /\ [][NextScoped]_vars

\* ------------------------------------------------------------------ claims
\* C1, as the code has it: a Block, If or Loop that ends by fall-through leaves
\* the frame's label depth as it was before the instruction (one label pushed
\* and one popped, or none of either for an If without else whose condition is
\* zero) and exactly block_arity values above the height recorded at entry,
\* where block_arity is 0 for a Loop and for the block type None, otherwise 1.
C1_FallThrough ==
    last.ev = "fall" =>
        /\ Len(CurLabels) = last.nlab0
        /\ last.popped \in {0, 1}
        /\ (last.popped = 0 => last.op = "If" /\ last.bt = "None")
        /\ height(entries)
             = last.h0 + (IF last.op = "Loop" \/ last.bt = "None" THEN 0 ELSE 1)

\* C1, as the claim states it: one label pushed and popped, and the number of
\* values left is the number of results of the block type, for a Loop as well.
C1_AsStated ==
    last.ev = "fall" =>
        /\ Len(CurLabels) = last.nlab0
        /\ last.popped = 1
        /\ height(entries) = last.h0 + (IF last.bt = "None" THEN 0 ELSE 1)

C1_Witness == last.ev = "fall" /\ last.op = "Loop" /\ last.bt = "I32"

\* C2: when Br k lands on the k-th enclosing label of the frame, the label
\* stack is the one at the Br without its k+1 innermost labels, and the stack
\* is the part below label_k.sp followed by the top label_k.arity values
\* present at the Br, in order; the label of a Loop has arity 0.
C2_BranchLands ==
    last.ev = "land" =>
        /\ last.k < Len(last.labs)
        /\ LET lab == last.labs[Len(last.labs) - last.k]
           IN /\ CurLabels = SubSeq(last.labs, 1, Len(last.labs) - (last.k + 1))
              /\ height(entries) = lab.sp + lab.arity
              /\ entries = SubSeq(last.es, 1, lab.sp) \o working_top(last.es, lab.arity)
              /\ (last.is_loop => lab.arity = 0)

C2_Witness ==
    /\ last.ev = "land"
    /\ last.k = 1
    /\ last.labs[Len(last.labs) - 1].arity = 1
    /\ Len(last.es) > last.labs[Len(last.labs) - 1].sp

C4_ReturnNeverAborts == ~(mode = "panic" /\ ret = Err("Return"))

\* C5: a call that completes without an error removes its frame and leaves
\* the caller's working depth at depth_before - p + r, with the r results,
\* of the declared types, on top and every value below the arguments as it was.
C5_CallDepth ==
    (last.ev = "call_ret" /\ last.ok) =>
        LET p == Len(F(last.f).params)
            results == F(last.f).results
            r == Len(results)
        IN /\ Len(frames) = last.nframes - 1
           /\ working_count(frames, entries) = last.depth - p + r
           /\ height(entries) = last.base + r
           /\ working_top(entries, r) = last.top
           /\ TypesMatch(results, working_top(entries, r))
           /\ SubSeq(entries, 1, last.base) = last.below

C5_Witness ==
    /\ last.ev = "call_ret"
    /\ last.ok
    /\ last.nframes = 2
    /\ last.f = 0
    /\ last.below # <<>>

\* C6: every label of every frame has its sp at or above the frame's
\* local_limit and at or below the base of the frame above it, the sp values
\* of a frame do not decrease from bottom to top, and a call returns with the
\* caller's label stack as it was when the call was made.
C6_LabelsWithinFrames ==
    /\ \A i \in 1..Len(frames) :
          LET ls == frames[i].label_stack
          IN \A j \in 1..Len(ls) :
                /\ ls[j].sp >= local_limit_of(frames[i])
                /\ (i < Len(frames) => ls[j].sp <= frames[i + 1].sp)
                /\ (j > 1 => ls[j - 1].sp <= ls[j].sp)
    /\ (last.ev = "call_ret" /\ last.caller >= 1) =>
          frames[last.caller].label_stack = last.labs

C6_Witness ==
    /\ last.ev = "call_ret"
    /\ last.ok
    /\ last.caller = 1
    /\ Len(last.labs) >= 1

C8_NoRollback == mode = "trap" => store = committed

C8_Witness == mode = "trap" /\ store # InitialStore

C10_GrowThenSize ==
    last.ev = "size" =>
        IF last.p # NEG1
        THEN last.p = last.before /\ last.pushed = last.p + last.n
        ELSE last.pushed = last.before

C10_Witness == last.ev = "size" /\ last.p = NEG1 /\ last.n > 0

\* the byte range of the recorded load or store lies inside the memory
InsideMemory(e) ==
    /\ e.base >= 0
    /\ e.base + e.offset + e.width <= e.pages * WASM_PAGE_SIZE_IN_BYTES

\* C11: a load or store whose byte range is not entirely inside the first
\* current_size * 65536 bytes of the memory traps, and a trapping store leaves
\* every byte of the memory as it was.
C11_OutOfRangeTraps ==
    (last.ev = "mem" /\ ~InsideMemory(last)) =>
        /\ last.res = "err"
        /\ mode # "panic"
        /\ mem = last.before
        /\ pages = last.pages

\* a four-byte store that starts inside the memory and ends outside it
C11_Witness ==
    /\ last.ev = "mem"
    /\ last.op = "I32Store"
    /\ last.value # 0
    /\ last.base + last.offset < last.pages * WASM_PAGE_SIZE_IN_BYTES
    /\ last.base + last.offset + last.width > last.pages * WASM_PAGE_SIZE_IN_BYTES
    /\ last.res = "err"
    /\ mem = last.before

\* C15: two loads or stores that differ only in their alignment hint have the
\* same outcome (value pushed, bytes written, trap or no trap).
C15_AsStated == last.ev = "mem" => last.same

\* C12: every integer division or remainder opcode executed with divisor 0
\* is reported as a trap: not a panic, and no value is pushed.
C12_AsStated ==
    (last.ev = "bin" /\ last.op \in DivOps32 \cup DivOps64 /\ last.b = 0) =>
        (last.res = "err" /\ mode # "panic")

\* C13: signed division of INT_MIN by -1 is reported as a trap; no wrapped
\* quotient is pushed.
C13_AsStated ==
    (last.ev = "bin" /\ last.op = "I32DivS" /\ last.a = INT_MIN /\ last.b = NEG1) =>
        last.res = "err"

\* the bits the recorded shift or rotate has to produce: the left operand
\* moved by the right operand, as an unsigned N-bit value, modulo N
ExpectedShift(e) ==
    ShiftBits(ShiftKind(e.op), Bits(e.a, BitWidth(e.op)), e.b % BitWidth(e.op), BitWidth(e.op))

\* C14: every shift and rotate opcode of bit width N in {32, 64} produces the
\* left operand shifted or rotated by (right operand mod N) positions, and its
\* execution never fails or panics.
C14_AsStated ==
    (last.ev = "bin" /\ last.op \in ShiftOps32 \cup ShiftOps64) =>
        /\ last.res = "done"
        /\ Bits(last.pushed, BitWidth(last.op)) = ExpectedShift(last)

\* C16: CallIndirect pops an index, traps on a bad slot or a type mismatch,
\* and otherwise calls the function as Call would: the interpreter never
\* aborts on the opcode.
C16_AsStated == ~(mode = "panic" /\ ret = Err("CallIndirect"))

\* C17: an instruction that finds fewer operands than it needs, the end of a
\* block with a result type whose body left no value above the block's label
\* included, is reported as a trap and never as a panic.
C17_AsStated ==
    ~(/\ mode = "panic"
      /\ ret = Err("pop_n_labels")
      /\ Top.k = "block"
      /\ Top.bt # "None"
      /\ height(entries) = CurLabels[Len(CurLabels)].sp)

\* the last section read is not a custom section and has an id below the id
\* of a non-custom section read before it
OutOfOrder ==
    /\ dec.n > 0
    /\ dec.last.id # CustomSection
    /\ \E i \in 1..(Len(dec.ids) - 1) : dec.ids[i] > dec.last.id

\* C18: the decoder fails with a decode error whenever a non-custom section
\* has an id lower than the id of an earlier non-custom section; it never
\* accepts such a stream and never aborts.
C18_AsStated == OutOfOrder => dec.phase = "err"

\* the last section read is not a custom section and has the id of a
\* non-custom section read before it
Duplicate ==
    /\ dec.n > 0
    /\ dec.last.id # CustomSection
    /\ \E i \in 1..(Len(dec.ids) - 1) : dec.ids[i] = dec.last.id

C20_AsStated ==
    (/\ dec.n > 0
     /\ ~OutOfOrder
     /\ ~dec.last.exact \/ dec.last.body_left) => dec.phase = "err"

\* a 32-bit number on more than five bytes: the first five all continue
Overlong32(bytes) == Len(bytes) > 5 /\ \A i \in 1..5 : bytes[i] >= 128

\* C21, as the spec states it: an encoding of a 32-bit number on more than five
\* bytes is refused with a decode error by the byte reader and by the decoding
\* of an instruction operand; it is never accepted, wrapped, or the cause of an abort
C21_AsStated ==
    dec.phase = "leb" /\ Overlong32(dec.bytes)
        => /\ dec.read.res \in {"none", "err"}
           /\ dec.ensure.res \in {"none", "err"}
           /\ dec.get.res \in {"none", "err"}

\* C22, as the spec states it: a stream with a valid header whose sections were
\* all read, with as many type indices as function bodies, is decoded into a
\* module, also when it has neither a function section nor a code section
C22_AsStated ==
    dec.phase \in {"ok", "err"} /\ dec.msg \in {"", "No functions found"}
        /\ dec.typeidx = dec.funcs
        => dec.phase = "ok"

\* what the decoder carries from one section to the next, and its outcome
Builder(d) == <<d.phase, d.msg, d.current, d.typeidx, d.funcs, d.has_start, d.ids>>

\* C23: a custom section whose name can be read is skipped: the turn of the loop
\* that reads it changes neither the builder nor the section expected next nor
\* the outcome, so the stream is accepted, and yields the same module, with or
\* without it; a custom section never makes the decoder abort
C23_Transparent ==
    [][dec.phase = "sections" /\ dec'.phase # "ok" /\ dec'.last.id = CustomSection
       /\ dec'.n = dec.n + 1
          => dec'.phase = "err" \/ Builder(dec') = Builder(dec)]_vars

\* a custom section was skipped after a section that is not custom
C23_Witness ==
    /\ dec.phase = "sections"
    /\ dec.n >= 2
    /\ dec.ids # <<>>
    /\ dec.last.id = CustomSection

\* C24, as the spec states it: an element segment whose slots reach past the
\* entries of its table, or a data segment whose bytes reach past the pages of
\* its memory, makes the write fail with an error and instantiation fail with it
C24_AsStated ==
    inst.last.ev \in {"elem", "data"} /\ inst.last.beyond => inst.phase = "err"

\* C25: once the module has more than one memory or more than one table,
\* imported and own together, instantiation never gets past the validation: no
\* element or data segment is started, the start function is not called, and
\* it can only end with an error
C25_ValidatedFirst ==
    inst.many
        => /\ inst.phase \in {"imports", "functions", "tables", "memories", "globals",
                              "exports", "err"}
           /\ inst.applied = 0
           /\ inst.start_calls = 0

\* both memories were collected and the validation refused them
C25_Witness ==
    inst.many /\ inst.phase = "err" /\ inst.msg = "Too many memories"
        /\ inst.last.ev = "validate"

\* C26: the initializer of the own global at index j runs when exactly the
\* globals below j exist, and the global it yields is pushed at j; an
\* initializer with a global.get of j itself or of a later global makes
\* instantiation fail, so one that succeeded referred to globals below j only
C26_DeclarationOrder ==
    inst.last.ev = "global"
        => /\ (\E idx \in inst.last.refs : idx >= inst.last.index) => inst.phase = "err"
           /\ inst.phase = "globals"
                => /\ Len(inst.globals) = inst.last.index + 1
                   /\ \A idx \in inst.last.refs : idx < inst.last.index

\* an initializer read an own global declared before its own and succeeded
C26_Witness ==
    /\ inst.last.ev = "global"
    /\ inst.phase = "globals"
    /\ \E idx \in inst.last.refs : idx >= inst.imported_globals

\* C27, as the spec states it: an initializer with a global.get of a global
\* that is not an imported const global fails
C27_AsStated ==
    inst.last.ev = "global" /\ inst.last.foreign => inst.phase = "err"

\* C28, as the spec states it: an import for which the resolver supplies an
\* entity that is not of the declared type makes instantiation fail
C28_AsStated ==
    inst.last.ev = "import" /\ inst.last.supplied /\ ~inst.last.matches => inst.phase = "err"

\* C29, as the spec states it: an export whose name an earlier export of the
\* module has makes instantiation fail
C29_AsStated ==
    inst.last.ev = "export" /\ inst.last.duplicate => inst.phase = "err"

\* C30: the start function is called at most once, and its call is the last
\* statement of the instantiation, after the element and data segments; a
\* module that declares one is instantiated only after one call that
\* returned Ok, and when the call traps instantiation fails
C30_StartOnce ==
    /\ inst.start_calls <= 1
    /\ inst.start_calls = 1
         => inst.last.ev = "start" /\ inst.last.declared /\ inst.phase \in {"ok", "err", "panic"}
    /\ inst.phase = "ok" /\ inst.last.declared
         => inst.start_calls = 1 /\ inst.last.outcome = "ok"
    /\ inst.last.ev = "start" /\ inst.start_calls = 1 /\ inst.last.outcome = "err"
         => inst.phase = "err"

\* after a segment was applied the start function was called, and it trapped
C30_Witness ==
    /\ inst.last.ev = "start"
    /\ inst.start_calls = 1
    /\ inst.applied > 0
    /\ inst.last.outcome = "err"
    /\ inst.phase = "err"

\* C31: after any sequence of set_value calls on a global, successful or not,
\* the stored value has the declared type and a constant global holds the
\* value it was created with; a set on a constant global or with a value of
\* another type fails and leaves the value as it was.
C31_GlobalTyped ==
    inst.phase = "global" =>
        /\ inst.global.value.ty = inst.declared.t
        /\ (~inst.declared.mutable => inst.global.value = inst.initial)
        /\ (inst.last.ev = "set"
              /\ (~inst.declared.mutable \/ inst.last.value.ty # inst.declared.t)
             => ~inst.last.ok /\ inst.global.value = inst.last.before)

C31_Witness ==
    /\ inst.phase = "global"
    /\ inst.declared.mutable
    /\ inst.global.value # inst.initial
    /\ inst.last.ev = "set"
    /\ inst.last.value.ty # inst.declared.t
    /\ ~inst.last.ok

\* C32: push_typed_frame fails when the working values are fewer than the
\* parameters or one of them is not of its parameter's type, pop_typed_frame
\* fails when the working values are fewer than the return types or one of
\* them is not of its return type, and a failing call leaves the values, the
\* frames and their labels exactly as they were.
C32_FailuresLeaveStack ==
    /\ last.ev = "push_frame" =>
          LET n == Len(last.func.params)
              short == working_count(last.frames0, last.entries0) < n
          IN /\ (short \/ ~TypesMatch(last.func.params, working_top(last.entries0, n)))
                  => last.err # ""
             /\ last.err # "" => entries = last.entries0 /\ frames = last.frames0
    /\ last.ev = "pop_frame" =>
          LET types == last.frames0[Len(last.frames0)].return_types
              short == working_count(last.frames0, last.entries0) < Len(types)
          IN /\ (short \/ ~TypesMatch(types, working_top(last.entries0, Len(types))))
                  => last.err # ""
             /\ last.err # "" => entries = last.entries0 /\ frames = last.frames0

C32_Witness ==
    /\ last.ev = "push_frame"
    /\ last.err = "Argument type does not match"
    /\ Len(last.func.locals) > 0
    /\ frames # <<>>
    /\ frames[Len(frames)].label_stack # <<>>

\* C33: BrTable with n targets, the default last, pops the i32 index and
\* branches as Br does to entry min(index, n - 1) of the table written in the
\* instruction, the index taken as unsigned; with the blocks of
\* test_branch_table, each tier adding one to local 0 after its inner block,
\* jump target j leaves MAX_DEPTH - min(j, MAX_DEPTH - 1) in local 0, the one
\* working value at the end.
C33_BranchTable ==
    inst.phase = "test" /\ inst.program.test = "branch_table" =>
        LET d == inst.program.depth
            j == inst.program.input
            clamped == IF j < 0 \/ j > d - 1 THEN d - 1 ELSE j
        IN /\ mode \notin {"trap", "panic"}
           /\ (last.ev = "br" =>
                 /\ last.table = [i \in 1..d |-> i - 1]
                 /\ last.idx = j
                 /\ last.k = last.table[clamped + 1]
                 /\ ret = branch_target(last.k))
           /\ (mode = "done" =>
                 /\ working_count(frames, entries) = 1
                 /\ TopEntry(entries) = I32Entry(d - clamped))

C33_Witness ==
    /\ inst.phase = "test"
    /\ inst.program.test = "branch_table"
    /\ inst.program.depth = MaxDepth
    /\ inst.program.input = MaxDepth + 1
    /\ mode = "done"
    /\ TopEntry(entries) = I32Entry(1)

\* what test_loop_block observes of a Loop counting local 0 down from N
LoopCountdown ==
    inst.phase = "test" /\ inst.program.test = "loop" =>
        /\ mode \notin {"trap", "panic"}
        /\ (last.ev = "fall" /\ last.op = "Loop" =>
              /\ last.runs = inst.program.input
              /\ entries[frame_base(frames) + 1] = I64Entry(0)
              /\ Len(CurLabels) = last.nlab0)
        /\ (mode = "done" =>
              /\ CurLabels = <<>>
              /\ working_count(frames, entries) = 1
              /\ TopEntry(entries) = I64Entry(0))

\* C34: a Loop whose body takes one from a local that starts at N > 0 and ends
\* with a BrIf 0 taken while the local is not zero terminates: the run reaches
\* its end, the body has run exactly N times when the Loop is left, the local
\* is then 0 and the label stack as deep as before the Loop, and the final
\* LocalGet leaves exactly one working value.
C34_LoopTerminates ==
    /\ []LoopCountdown
    /\ ((inst.phase = "test" /\ inst.program.test = "loop" /\ mode = "exec")
          ~> (mode = "done"))

C34_Witness ==
    /\ inst.phase = "test"
    /\ inst.program.test = "loop"
    /\ inst.program.input = MaxCount
    /\ last.ev = "fall"
    /\ last.op = "Loop"
    /\ last.runs = MaxCount

\* C35: a Loop whose body ends by fall-through is left at once, without
\* another iteration and without an abort, and leaves no result: whatever its
\* block type and whatever the body left, the stack is cut to its height at
\* the entry of the Loop and the Loop's label is gone.
C35_LoopFallThrough ==
    /\ (last.ev = "fall" /\ last.op = "Loop") =>
          /\ height(entries) = last.h0
          /\ Len(CurLabels) = last.nlab0
          /\ last.popped = 1
          /\ mode \in {"exec", "ret", "done"}
          /\ (mode = "exec" => Top.k = "expr" /\ ret = Nil)
    /\ (last.ev = "panic" /\ "op" \in DOMAIN last) => ~(last.op = "Loop" /\ ~last.branch)

C35_Witness ==
    /\ last.ev = "fall"
    /\ last.op = "Loop"
    /\ last.bt = "I32"
    /\ last.left > 0
    /\ last.runs = 1

\* C36: Select on a, b and an i32 selector: when a and b are of different
\* types it fails with the selector popped and a and b still the top working
\* values, in their order (two working values when these three were all);
\* when they are of the same type it replaces the three by one value, a if
\* the selector is not zero, else b.
C36_Select ==
    (last.ev = "select" /\ last.wc >= 3 /\ TopEntry(last.before).ty = "I32") =>
        LET n == Len(last.before)
            a == last.before[n - 2]
            b == last.before[n - 1]
            c == last.before[n]
        IN IF a.ty # b.ty
           THEN /\ last.res = "err"
                /\ mode = "ret"
                /\ IsErr(ret)
                /\ entries = SubSeq(last.before, 1, n - 1)
                /\ working_top(entries, 2) = <<a, b>>
                /\ working_count(frames, entries) = last.wc - 1
                /\ (last.wc = 3 => working_count(frames, entries) = 2)
           ELSE /\ last.res = "done"
                /\ entries = SubSeq(last.before, 1, n - 3) \o <<IF c.v # 0 THEN a ELSE b>>
                /\ (last.wc = 3 => working_count(frames, entries) = 1)

C36_Witness ==
    /\ last.ev = "select"
    /\ last.msg = "Select types do not match"
    /\ mode = "ret"
    /\ IsErr(ret)
    /\ working_count(frames, entries) = 2
    /\ entries = <<I32Entry(42), I64Entry(42)>>

\* C37, as the claim states it: when a Call hands control back to its caller,
\* whether the body completed, branched out of the function or trapped, the
\* frame it pushed has been popped and the frame stack is as deep as it was
\* before the Call.
C37_AsStated ==
    (last.ev = "call_ret" /\ last.caller >= 1) =>
        /\ last.nframes = last.caller + 1
        /\ Len(frames) = last.caller

\* C38: after any sequence of grow_by calls on a memory created with a
\* minimum that is not above its maximum, or with no maximum, the page count
\* is never below the declared minimum and never above the declared maximum,
\* no call lowers it, and a call that fails adds no page.
C38_GrowWithinLimits ==
    inst.phase = "memory" =>
        /\ inst.memory.pages >= inst.memory.limits.min
        /\ (inst.memory.limits.bounded => inst.memory.pages <= inst.memory.limits.max)
        /\ (inst.last.ev = "grow" =>
              /\ inst.memory.pages >= inst.last.before
              /\ (inst.last.res = "err" => inst.memory.pages = inst.last.before)
              /\ (inst.last.res = "ok" => inst.memory.pages = inst.last.before + inst.last.n))

C38_Witness ==
    /\ inst.phase = "memory"
    /\ inst.memory.limits.bounded
    /\ inst.memory.pages = inst.memory.limits.max
    /\ inst.memory.pages > inst.memory.limits.min
    /\ inst.last.ev = "grow"
    /\ inst.last.res = "err"
    /\ inst.last.n = 1

\* C39: after any sequence of reads through a scoped reader of size B, the
\* bytes taken from the source are as many as the reader's offset, and never
\* more than B; once the offset is B a read returns zero bytes and takes
\* nothing from the source; is_at_end holds exactly when the offset is B.
C39_ScopedReads ==
    inst.phase = "reader" =>
        /\ inst.reader.src.taken = inst.reader.offset
        /\ inst.reader.offset <= inst.reader.size
        /\ (Scoped_is_at_end(inst.reader) <=> inst.reader.offset = inst.reader.size)
        /\ (inst.last.ev = "read" /\ inst.last.before.offset = inst.last.before.size =>
              /\ inst.last.res = "ok"
              /\ inst.last.n = 0
              /\ inst.reader = inst.last.before)

C39_Witness ==
    /\ inst.phase = "reader"
    /\ inst.reader.size = MaxScope
    /\ inst.reader.offset = MaxScope
    /\ inst.reader.src.left > 0
    /\ inst.last.ev = "read"
    /\ inst.last.before.offset = MaxScope
    /\ inst.last.buf_len > 0
    /\ inst.last.n = 0

\* C40: while a branch to depth k travels outwards, every block that is not
\* its target pops no label and hands it on with the remaining distance one
\* smaller and the label count still k; the distance is 0 exactly at the k-th
\* enclosing block, which pops all k + 1 labels in one step; a Loop that is
\* the target pushes its label again before the body runs again, so the body
\* of a loop always starts with the same number of labels.
C40_BranchPropagation ==
    /\ (mode = "ret" /\ IsBranch(ret) /\ last.ev \in {"br", "pass"} =>
          /\ ret.label_idx = last.k - last.passed
          /\ ret.label_cnt = last.k
          /\ CurLabels = last.labs)
    /\ (last.ev = "land" =>
          /\ last.passed = last.k
          /\ Len(CurLabels) = Len(last.labs) - (last.k + 1)
          /\ CurLabels = SubSeq(last.labs, 1, Len(last.labs) - (last.k + 1))
          /\ (last.is_loop <=> mode = "restart"))
    /\ (mode = "exec" /\ Len(ctl) >= 2 /\ Top.k = "expr" =>
          LET b == ctl[Len(ctl) - 1]
          IN b.k = "block" => Len(CurLabels) = b.nlab0 + 1)

C40_Witness ==
    /\ mode = "restart"
    /\ last.ev = "land"
    /\ last.k = 1
    /\ last.passed = 1
    /\ last.is_loop
    /\ Top.k = "block"
    /\ Top.runs = 2
    /\ Len(CurLabels) = Len(last.labs) - 2
    /\ Len(CurLabels) = Top.nlab0
====
